---------------------------- MODULE Spec2Model ----------------------------
(***************************************************************************)
(* A model of the AI optimization engine of backend/optimization_engine.py *)
(* (AIOptimizationEngine and OptimizationMetrics).                         *)
(*                                                                         *)
(* Representation.                                                         *)
(*  - A Python str is a sequence of one-character strings, so that         *)
(*    strip(), lower(), substring tests and f-string interpolation are     *)
(*    computed character by character.                                     *)
(*  - A Python float in [0,1] is a fixed-point integer in units of 1/Scale *)
(*    (1e-4, the precision of the code's round(x, 4)); the overall score   *)
(*    is kept in units of 1/ScoreScale (1e-6) so that the weighted sum of  *)
(*    1e-4 values with 1e-2 weights is exact.                              *)
(*  - hashlib.md5 is a table over the strings the model hashes.            *)
(***************************************************************************)
EXTENDS Integers, Sequences, FiniteSets, TLC

VARIABLES
    config,                  \* self.config and the clients built from it
    current_brand,           \* self.current_brand (NoAttr until first set)
    visibility_query_cache,  \* self._visibility_query_cache
    visibility_stats,        \* self._visibility_stats
    op,                      \* the operation that ran last
    args,                    \* its arguments
    result,                  \* what it returned (or that it raised)
    llm_requests,            \* the completion requests it sent for query generation
    tasks                    \* the coroutines in flight: their arguments, positions and locals

vars == <<config, current_brand, visibility_query_cache, visibility_stats,
          op, args, result, llm_requests, tasks>>

-----------------------------------------------------------------------------
(* Arithmetic helpers *)

Scale == 100 * 100
ScoreScale == Scale * 100

Min(a, b) == IF a <= b THEN a ELSE b
Max(a, b) == IF a >= b THEN a ELSE b
Clamp(lo, x, hi) == Max(lo, Min(hi, x))

RECURSIVE SumSeq(_)
SumSeq(s) == IF s = <<>> THEN 0 ELSE Head(s) + SumSeq(Tail(s))

Range(s) == { s[i] : i \in 1..Len(s) }

\* the indices 1..n as a list
Indices(n) == [i \in 1..n |-> i]

-----------------------------------------------------------------------------
(* Python str operations on character sequences *)

UpperChars == <<"A","B","C","D","E","F","G","H","I","J","K","L","M",
                "N","O","P","Q","R","S","T","U","V","W","X","Y","Z">>
LowerChars == <<"a","b","c","d","e","f","g","h","i","j","k","l","m",
                "n","o","p","q","r","s","t","u","v","w","x","y","z">>

\* str.lower() on one character
LowerChar(c) ==
    IF \E i \in 1..26 : UpperChars[i] = c
    THEN LowerChars[CHOOSE i \in 1..26 : UpperChars[i] = c]
    ELSE c

\* str.lower()
Lower(s) == [i \in 1..Len(s) |-> LowerChar(s[i])]

\* the characters str.strip() and str.split() treat as whitespace
IsSpace(c) == c \in {" ", "\t", "\n", "\r", "\f"}

\* str.isalpha() on one (lower-cased) character
IsAlpha(c) == \E i \in 1..26 : LowerChars[i] = c \/ UpperChars[i] = c

RECURSIVE LStrip(_)
LStrip(s) == IF s # <<>> /\ IsSpace(Head(s)) THEN LStrip(Tail(s)) ELSE s

RECURSIVE RStrip(_)
RStrip(s) ==
    IF s # <<>> /\ IsSpace(s[Len(s)]) THEN RStrip(SubSeq(s, 1, Len(s) - 1)) ELSE s

\* str.strip()
Strip(s) == LStrip(RStrip(s))

\* sub in s
Contains(s, sub) ==
    \E i \in 1..(Len(s) - Len(sub) + 1) : SubSeq(s, i, i + Len(sub) - 1) = sub

\* s.startswith(pre)
StartsWith(s, pre) == Len(pre) <= Len(s) /\ SubSeq(s, 1, Len(pre)) = pre

RECURSIVE Concat(_)
Concat(ss) == IF ss = <<>> THEN <<>> ELSE Head(ss) \o Concat(Tail(ss))

-----------------------------------------------------------------------------
(* OptimizationMetrics *)

CoreFloatFields ==
    {"chunk_retrieval_frequency", "embedding_relevance_score", "attribution_rate",
     "vector_index_presence_ratio", "retrieval_confidence_score",
     "rrf_rank_contribution", "llm_answer_coverage", "ai_model_crawl_success_rate",
     "semantic_density_score", "zero_click_surface_presence",
     "machine_validated_authority"}

DerivedFields ==
    {"brand_strength_score", "brand_visibility_potential", "content_quality_score",
     "industry_relevance", "amanda_crast_score"}

None == "None"

\* performance_summary: None, or the value stored in it
NoSummary == [is_none |-> TRUE]
Summary(x) == [is_none |-> FALSE, value |-> x]

\* OptimizationMetrics(): the dataclass defaults
NewMetrics ==
    [chunk_retrieval_frequency |-> 0, embedding_relevance_score |-> 0,
     attribution_rate |-> 0, ai_citation_count |-> 0,
     vector_index_presence_ratio |-> 0, retrieval_confidence_score |-> 0,
     rrf_rank_contribution |-> 0, llm_answer_coverage |-> 0,
     ai_model_crawl_success_rate |-> 0, semantic_density_score |-> 0,
     zero_click_surface_presence |-> 0, machine_validated_authority |-> 0,
     brand_strength_score |-> 0, brand_visibility_potential |-> 0,
     content_quality_score |-> 0, industry_relevance |-> 0,
     amanda_crast_score |-> 0,
     overall_score |-> 0, performance_grade |-> "", performance_summary |-> NoSummary]

\* a plausible slip: one weight of the table mistyped (0.14 for 0.15)
weights_mistyped ==
    <<  <<"attribution_rate", 14>>, <<"ai_citation_count", 10>>,
        <<"embedding_relevance_score", 12>>, <<"chunk_retrieval_frequency", 10>>,
        <<"semantic_density_score", 10>>, <<"llm_answer_coverage", 12>>,
        <<"zero_click_surface_presence", 8>>, <<"machine_validated_authority", 13>>,
        <<"vector_index_presence_ratio", 4>>, <<"retrieval_confidence_score", 3>>,
        <<"rrf_rank_contribution", 2>>, <<"ai_model_crawl_success_rate", 1>> >>

\* the weights dict of get_overall_score, in hundredths, in the dict's order
weights ==
    <<  <<"attribution_rate", 15>>, <<"ai_citation_count", 10>>,
        <<"embedding_relevance_score", 12>>, <<"chunk_retrieval_frequency", 10>>,
        <<"semantic_density_score", 10>>, <<"llm_answer_coverage", 12>>,
        <<"zero_click_surface_presence", 8>>, <<"machine_validated_authority", 13>>,
        <<"vector_index_presence_ratio", 4>>, <<"retrieval_confidence_score", 3>>,
        <<"rrf_rank_contribution", 2>>, <<"ai_model_crawl_success_rate", 1>> >>

CitationTarget == 40

\* one term of the loop: normalized_value * weight, or value * weight
WeightedTerm(m, metric, weight) ==
    IF metric = "ai_citation_count"
    THEN Min(Scale, (m[metric] * Scale) \div CitationTarget) * weight
    ELSE m[metric] * weight

\* the loop of get_overall_score: score, before the final clamp (units 1e-6)
WeightedSum(m) ==
    SumSeq([i \in 1..Len(weights) |-> WeightedTerm(m, weights[i][1], weights[i][2])])

\* a plausible slip: the final max(0.0, min(1.0, score)) left out
get_overall_score_unclamped(m) == WeightedSum(m)

\* OptimizationMetrics.get_overall_score
get_overall_score(m) == Max(0, Min(ScoreScale, WeightedSum(m)))

Grades == <<"F", "D", "C-", "C", "C+", "B-", "B", "B+", "A-", "A", "A+">>

\* position of a letter on the scale, 1 = "F" .. 11 = "A+"; 0 for anything else
GradeRank(g) ==
    IF \E i \in 1..Len(Grades) : Grades[i] = g
    THEN CHOOSE i \in 1..Len(Grades) : Grades[i] = g
    ELSE 0

\* the if/elif chain of get_performance_grade
GradeOfScore(score) ==
    IF score >= 900000 THEN "A+"
    ELSE IF score >= 850000 THEN "A"
    ELSE IF score >= 800000 THEN "A-"
    ELSE IF score >= 750000 THEN "B+"
    ELSE IF score >= 700000 THEN "B"
    ELSE IF score >= 650000 THEN "B-"
    ELSE IF score >= 600000 THEN "C+"
    ELSE IF score >= 550000 THEN "C"
    ELSE IF score >= 500000 THEN "C-"
    ELSE IF score >= 400000 THEN "D"
    ELSE "F"

\* OptimizationMetrics.get_performance_grade
get_performance_grade(m) == GradeOfScore(get_overall_score(m))

-----------------------------------------------------------------------------
(* Brand names and hashlib.md5 *)

EmptyStr == <<>>
Acme == <<"A","c","m","e">>
AppleInc == <<"A","p","p","l","e"," ","I","n","c">>
NovaRobotics == <<"N","o","v","a"," ","R","o","b","o","t","i","c","s">>
DataTech == <<"D","a","t","a","T","e","c","h">>
Alphabet1 == <<"a","b","c","d","e","f","g","h","i","j","k","l","m","n","o","p",
               "q","r","s","t","u","v","w","x","y","z","1">>

\* int(hashlib.md5(s.encode()).hexdigest()[:6], 16) for the strings hashed here
MD5Hex6(s) ==
    CASE s = <<>> -> 13901196
      [] s = <<"a","c","m","e">> -> 5487844
      [] s = <<"a","p","p","l","e"," ","i","n","c">> -> 4196580
      [] s = <<"n","o","v","a"," ","r","o","b","o","t","i","c","s">> -> 3133556
      [] s = <<"d","a","t","a","t","e","c","h">> -> 4544646
      [] s = Alphabet1 -> 15757099
      [] s = <<"x">> -> 10343652
      [] s = <<"a","c","m","e","!">> -> 1083073
      [] s = <<"u","n","k","n","o","w","n">> -> 11375133

\* int(hashlib.md5(s.encode()).hexdigest()[:4], 16)
MD5Hex4(s) == MD5Hex6(s) \div 256

\* int(hashlib.md5(s.encode()).hexdigest()[:2], 16)
MD5Hex2(s) == MD5Hex6(s) \div 65536

\* a plausible slip: the jitter divided by 100 instead of 1000 (0 to 0.02)
GradeJitter_hundredths(brand_name) ==
    (MD5Hex2(Lower(IF brand_name = EmptyStr THEN <<"x">> ELSE brand_name)) % 3) * 10000

\* _get_consistent_grade: h = md5((brand_name or 'x').lower())[:2];
\* jitter = (h % 3) / 1000.0, in units of 1e-6
GradeJitter(brand_name) ==
    (MD5Hex2(Lower(IF brand_name = EmptyStr THEN <<"x">> ELSE brand_name)) % 3) * 1000

\* a plausible slip: the "C-" threshold typed 0.05 for 0.5
get_consistent_grade_typo(brand_name, overall_score) ==
    LET s == Max(0, Min(ScoreScale, overall_score + GradeJitter(brand_name)))
    IN  IF s >= 900000 THEN "A+"
        ELSE IF s >= 850000 THEN "A"
        ELSE IF s >= 800000 THEN "A-"
        ELSE IF s >= 750000 THEN "B+"
        ELSE IF s >= 700000 THEN "B"
        ELSE IF s >= 650000 THEN "B-"
        ELSE IF s >= 600000 THEN "C+"
        ELSE IF s >= 550000 THEN "C"
        ELSE IF s >= 50000 THEN "C-"
        ELSE IF s >= 400000 THEN "D"
        ELSE "F"

\* AIOptimizationEngine._get_consistent_grade
get_consistent_grade(brand_name, overall_score) ==
    LET s == Max(0, Min(ScoreScale, overall_score + GradeJitter(brand_name)))
    IN  IF s >= 900000 THEN "A+"
        ELSE IF s >= 850000 THEN "A"
        ELSE IF s >= 800000 THEN "A-"
        ELSE IF s >= 750000 THEN "B+"
        ELSE IF s >= 700000 THEN "B"
        ELSE IF s >= 650000 THEN "B-"
        ELSE IF s >= 600000 THEN "C+"
        ELSE IF s >= 550000 THEN "C"
        ELSE IF s >= 500000 THEN "C-"
        ELSE IF s >= 400000 THEN "D"
        ELSE "F"

-----------------------------------------------------------------------------
(* Brand context *)

\* any(k in categories for k in keywords)
AnyIn(keywords, text) == \E k \in keywords : Contains(text, k)

RECURSIVE JoinSpace(_)
\* ' '.join(parts)
JoinSpace(parts) ==
    IF parts = <<>> THEN <<>>
    ELSE IF Len(parts) = 1 THEN parts[1]
    ELSE parts[1] \o <<" ">> \o JoinSpace(Tail(parts))

\* AIOptimizationEngine._determine_industry_context
determine_industry_context(brand_name, product_categories) ==
    LET categories == Lower(JoinSpace(<<brand_name>> \o product_categories))
    IN  IF AnyIn({<<"c","a","r">>, <<"a","u","t","o">>, <<"v","e","h","i","c","l","e">>, <<"e","v">>, <<"t","e","s","l","a">>}, categories)
            THEN "automotive"
        ELSE IF AnyIn({<<"t","e","c","h">>, <<"s","o","f","t","w","a","r","e">>, <<"c","l","o","u","d">>, <<"a","i">>, <<"d","a","t","a">>}, categories)
            THEN "technology"
        ELSE IF AnyIn({<<"b","a","n","k">>, <<"f","i","n","a","n","c","e">>, <<"c","a","p","i","t","a","l">>, <<"i","n","v","e","s","t">>}, categories)
            THEN "finance"
        ELSE IF AnyIn({<<"h","e","a","l","t","h">>, <<"m","e","d","i","c","a","l">>, <<"p","h","a","r","m","a">>, <<"c","a","r","e">>}, categories)
            THEN "healthcare"
        ELSE IF AnyIn({<<"e","s","t","a","t","e">>, <<"p","r","o","p","e","r","t","y">>, <<"r","e","a","l"," ","e","s","t","a","t","e">>}, categories)
            THEN "real estate"
        ELSE IF AnyIn({<<"e","n","e","r","g","y">>, <<"s","o","l","a","r">>, <<"b","a","t","t","e","r","y">>, <<"p","o","w","e","r">>}, categories)
            THEN "energy"
        ELSE "general business"

\* AIOptimizationEngine._generate_industry_specific_queries (the definition
\* at the end of the class, which replaces the earlier one of the same name)
generate_industry_specific_queries(brand_name, industry) ==
    LET templates == [
            technology |-> <<
                <<"W","h","a","t"," ","d","o","e","s"," ">> \o brand_name \o <<" ","d","o","?">>,
                <<"I","s"," ">> \o brand_name \o <<" ","g","o","o","d"," ","f","o","r"," ","e","n","t","e","r","p","r","i","s","e","s","?">>,
                brand_name \o <<" ","v","s"," ","c","o","m","p","e","t","i","t","o","r","s">> >>,
            automotive |-> <<
                <<"A","r","e"," ">> \o brand_name \o <<" ","c","a","r","s"," ","r","e","l","i","a","b","l","e","?">>,
                brand_name \o <<" ","E","V"," ","r","a","n","g","e">>,
                brand_name \o <<" ","s","a","f","e","t","y"," ","r","a","t","i","n","g","s">> >>,
            healthcare |-> <<
                <<"I","s"," ">> \o brand_name \o <<" ","F","D","A"," ","a","p","p","r","o","v","e","d","?">>,
                brand_name \o <<" ","c","l","i","n","i","c","a","l"," ","o","u","t","c","o","m","e","s">>,
                brand_name \o <<" ","p","a","t","i","e","n","t"," ","s","a","f","e","t","y">> >>,
            finance |-> <<
                <<"I","s"," ">> \o brand_name \o <<" ","s","a","f","e","?">>,
                brand_name \o <<" ","f","e","e","s">>,
                brand_name \o <<" ","r","e","t","u","r","n","s">> >>,
            real_estate |-> <<
                <<"I","s"," ">> \o brand_name \o <<" ","t","r","u","s","t","w","o","r","t","h","y","?">>,
                brand_name \o <<" ","r","e","v","i","e","w","s">>,
                brand_name \o <<" ","l","o","c","a","t","i","o","n","s">> >>,
            energy |-> <<
                <<"I","s"," ">> \o brand_name \o <<" ","r","e","n","e","w","a","b","l","e","?">>,
                brand_name \o <<" ","s","o","l","a","r"," ","e","f","f","i","c","i","e","n","c","y">>,
                brand_name \o <<" ","b","a","t","t","e","r","y"," ","t","e","c","h","n","o","l","o","g","y">> >>,
            general_business |-> <<
                <<"W","h","a","t"," ","i","s"," ">> \o brand_name \o <<"?">>,
                <<"I","s"," ">> \o brand_name \o <<" ","g","o","o","d","?">>,
                brand_name \o <<" ","r","e","v","i","e","w","s">> >> ]
        key == IF industry = "real estate" THEN "real_estate"
               ELSE IF industry = "general business" THEN "general_business"
               ELSE industry
    IN  IF key \in DOMAIN templates THEN templates[key] ELSE templates.general_business

\* the generic brand queries of the heuristic fallback
GenericQueries(brand_name) ==
    <<
        <<"W","h","a","t"," ","i","s"," ">> \o brand_name \o <<"?">>,
        <<"T","e","l","l"," ","m","e"," ","a","b","o","u","t"," ">> \o brand_name,
        brand_name \o <<" ","p","r","i","c","i","n","g">>,
        brand_name \o <<" ","r","e","v","i","e","w","s">>,
        brand_name \o <<" ","f","e","a","t","u","r","e","s">>,
        brand_name \o <<" ","b","e","n","e","f","i","t","s">>,
        brand_name \o <<" ","v","s"," ","c","o","m","p","e","t","i","t","o","r","s">>,
        <<"B","e","s","t"," ","a","l","t","e","r","n","a","t","i","v","e","s"," ","t","o"," ">> \o brand_name,
        <<"I","s"," ">> \o brand_name \o <<" ","g","o","o","d","?">>,
        <<"H","o","w"," ","d","o","e","s"," ">> \o brand_name \o <<" ","w","o","r","k","?">> >>

\* the six queries added for one (stripped) category c
CategoryQueries(brand_name, c) ==
    <<
        brand_name \o <<" ">> \o c,
        brand_name \o <<" ">> \o c \o <<" ","p","r","i","c","i","n","g">>,
        brand_name \o <<" ">> \o c \o <<" ","r","e","v","i","e","w","s">>,
        brand_name \o <<" ">> \o c \o <<" ","v","s"," ","a","l","t","e","r","n","a","t","i","v","e","s">>,
        <<"I","s"," ">> \o brand_name \o <<" ","g","o","o","d"," ","f","o","r"," ">> \o c \o <<"?">>,
        brand_name \o <<" ">> \o c \o <<" ","i","n","t","e","g","r","a","t","i","o","n">> >>

\* intents
Intents ==
    <<
        <<"s","e","t","u","p">>,
        <<"t","u","t","o","r","i","a","l">>,
        <<"d","o","c","s">>,
        <<"c","o","m","p","a","r","i","s","o","n">>,
        <<"s","u","p","p","o","r","t">>,
        <<"l","i","m","i","t","a","t","i","o","n","s">>,
        <<"s","e","c","u","r","i","t","y">>,
        <<"A","P","I">>,
        <<"c","a","s","e"," ","s","t","u","d","i","e","s">> >>

-----------------------------------------------------------------------------
(* Query generation *)

\* s[:n]
Take(s, n) == SubSeq(s, 1, Min(n, Len(s)))

RECURSIVE LStripChars(_, _)
\* s.lstrip(chars)
LStripChars(s, chars) ==
    IF s # <<>> /\ Head(s) \in chars THEN LStripChars(Tail(s), chars) ELSE s

RECURSIVE StripNonEmpty(_)
\* [q.strip() for q in qs if isinstance(q, str) and q.strip()]
StripNonEmpty(qs) ==
    IF qs = <<>> THEN <<>>
    ELSE IF Strip(Head(qs)) # <<>>
         THEN <<Strip(Head(qs))>> \o StripNonEmpty(Tail(qs))
         ELSE StripNonEmpty(Tail(qs))

\* list(dict.fromkeys(qs)): the first occurrence of each string, in order
DictFromKeys(qs) ==
    LET firsts == SelectSeq(Indices(Len(qs)), LAMBDA i : \A j \in 1..(i - 1) : qs[j] # qs[i])
    IN  [k \in 1..Len(firsts) |-> qs[firsts[k]]]

QueryCap == 60

\* a plausible slip: the [:60] left off
UniqueQueries_nocap(queries) == DictFromKeys(StripNonEmpty(queries))

\* list(dict.fromkeys([q.strip() for q in queries if ... q.strip()]))[:60]
UniqueQueries(queries) == Take(DictFromKeys(StripNonEmpty(queries)), QueryCap)

\* the unicode bullet U+2022, one character
Bullet == "u2022"

\* the prefixes for which a provider's line is left out
SkippedPrefixes == { <<"-">>, <<"*">>, <<"1", ".">>, <<"2", ".">> }

RECURSIVE ProviderQueries(_)
\* [q.strip() for q in content.split('\n')
\*      if q.strip() and not q.strip().startswith(('-', '*', '1.', '2.'))]
\* where lines is content.split('\n')
ProviderQueries(lines) ==
    IF lines = <<>> THEN <<>>
    ELSE LET q == Strip(Head(lines))
         IN  IF q # <<>> /\ ~ \E p \in SkippedPrefixes : StartsWith(q, p)
             THEN <<q>> \o ProviderQueries(Tail(lines))
             ELSE ProviderQueries(Tail(lines))

RECURSIVE CleanQueries(_, _)
\* the clean-and-deduplicate loop of _llm_generate_queries
CleanQueries(all_queries, seen_queries) ==
    IF all_queries = <<>> THEN <<>>
    ELSE LET q == LStripChars(Strip(Head(all_queries)), {"-", Bullet, "*", "\t", " "})
         IN  IF q # <<>> /\ Lower(q) \notin seen_queries
             THEN <<q>> \o CleanQueries(Tail(all_queries), seen_queries \cup {Lower(q)})
             ELSE CleanQueries(Tail(all_queries), seen_queries)

PerplexityTake == 15
AnthropicTake == 12
OpenAITake == 12
EnoughQueries == 25
LlmCap == 50

\* one provider's block: called when its client is set (and, for the second
\* and third, fewer than 25 queries were collected); a call that raises is
\* logged and adds nothing
ProviderBlock(all_queries, client, outcome, take, first) ==
    IF client /\ (first \/ Len(all_queries) < EnoughQueries) /\ outcome.kind = "ok"
    THEN all_queries \o Take(ProviderQueries(outcome.lines), take)
    ELSE all_queries

\* AIOptimizationEngine._llm_generate_queries, up to its return statement;
\* outcomes gives what each provider's completion call does
llm_generate_queries(cfg, outcomes) ==
    LET a1 == ProviderBlock(<<>>, cfg.perplexity_client, outcomes.perplexity,
                            PerplexityTake, TRUE)
        a2 == ProviderBlock(a1, cfg.anthropic_client, outcomes.anthropic,
                            AnthropicTake, FALSE)
        a3 == ProviderBlock(a2, cfg.openai_client, outcomes.openai, OpenAITake, FALSE)
    IN  Take(CleanQueries(a3, {}), LlmCap)

RECURSIVE CategoryExpanded(_, _)
\* for cat in cats: base.extend([...six queries with cat.strip()...]),
\* cats being the categories that are not blank
CategoryExpanded(brand_name, product_categories) ==
    IF product_categories = <<>> THEN <<>>
    ELSE LET c == Strip(Head(product_categories))
         IN  (IF c # <<>> THEN CategoryQueries(brand_name, c) ELSE <<>>)
             \o CategoryExpanded(brand_name, Tail(product_categories))

\* a plausible slip: the templates filled with brand_name.lower()
HeuristicQueries_lowered(brand_name, product_categories, industry) ==
    generate_industry_specific_queries(Lower(brand_name), industry)
    \o GenericQueries(Lower(brand_name))
    \o CategoryExpanded(Lower(brand_name), product_categories)
    \o [i \in 1..Len(Intents) |-> Lower(brand_name) \o <<" ">> \o Intents[i]]

\* the heuristic fallback of _generate_semantic_queries: the list base
HeuristicQueries(brand_name, product_categories, industry) ==
    generate_industry_specific_queries(brand_name, industry)
    \o GenericQueries(brand_name)
    \o CategoryExpanded(brand_name, product_categories)
    \o [i \in 1..Len(Intents) |-> brand_name \o <<" ">> \o Intents[i]]

Returned(v) == [kind |-> "return", value |-> v]
Raised(e) == [kind |-> "raise", error |-> e]

\* one completion request: the provider it goes to and the prompt it carries
\* (the only prompt sent before the return statement is the standard one)
Request(provider) == [provider |-> provider, prompt |-> "standard"]

\* the completion requests of AIOptimizationEngine._llm_generate_queries up to
\* its return statement: one per configured provider, the second and the third
\* only while fewer than 25 queries were collected
llm_generate_requests(cfg, outcomes) ==
    LET a1 == ProviderBlock(<<>>, cfg.perplexity_client, outcomes.perplexity,
                            PerplexityTake, TRUE)
        a2 == ProviderBlock(a1, cfg.anthropic_client, outcomes.anthropic,
                            AnthropicTake, FALSE)
    IN  (IF cfg.perplexity_client THEN <<Request("perplexity")>> ELSE <<>>)
        \o (IF cfg.anthropic_client /\ Len(a1) < EnoughQueries
            THEN <<Request("anthropic")>> ELSE <<>>)
        \o (IF cfg.openai_client /\ Len(a2) < EnoughQueries
            THEN <<Request("openai")>> ELSE <<>>)

\* the completion requests of AIOptimizationEngine._generate_semantic_queries:
\* _llm_generate_queries is entered only with an Anthropic or OpenAI client
semantic_query_requests(cfg, outcomes) ==
    IF cfg.anthropic_client \/ cfg.openai_client
    THEN llm_generate_requests(cfg, outcomes)
    ELSE <<>>

\* AIOptimizationEngine._generate_semantic_queries
generate_semantic_queries(cfg, brand_name, product_categories, outcomes) ==
    LET industry == determine_industry_context(brand_name, product_categories)
        has_client == cfg.anthropic_client \/ cfg.openai_client
        llm_queries == llm_generate_queries(cfg, outcomes)
    IN  IF cfg.llm_only_queries
        THEN IF ~ has_client
             THEN Raised("RuntimeError: requires configured client")
             ELSE IF llm_queries = <<>>
             THEN Raised("RuntimeError: returned no queries")
             ELSE Returned(UniqueQueries(llm_queries))
        ELSE LET queries == IF has_client THEN llm_queries ELSE <<>>
             IN  Returned(UniqueQueries(
                     IF queries # <<>> THEN queries
                     ELSE HeuristicQueries(brand_name, product_categories, industry)))

-----------------------------------------------------------------------------
(* Regular-expression and text helpers (the re and str calls of the engine) *)

Digits == {"0", "1", "2", "3", "4", "5", "6", "7", "8", "9"}

\* a character of the class \w
IsWordChar(c) == IsAlpha(c) \/ c \in Digits \/ c = "_"

\* text[i] exists and is a \w character
WordAt(text, i) == i >= 1 /\ i <= Len(text) /\ IsWordChar(text[i])

\* the assertion \b holds between text[p] and text[p+1]
Boundary(text, p) == WordAt(text, p) # WordAt(text, p + 1)

\* the literal lit occurs in text starting at index i
LitAt(text, i, lit) ==
    i >= 1 /\ i + Len(lit) - 1 <= Len(text) /\ SubSeq(text, i, i + Len(lit) - 1) = lit

Possessive == <<"'", "s">>

\* the index after a match of \b{lit}(?:'s)?\b that starts at i, 0 if none
\* (the possessive is tried first, as the greedy ? does)
WordMatchEnd(text, i, lit) ==
    IF ~ (Boundary(text, i - 1) /\ LitAt(text, i, lit)) THEN 0
    ELSE LET e == i + Len(lit)
         IN  IF LitAt(text, e, Possessive) /\ Boundary(text, e + 1) THEN e + 2
             ELSE IF Boundary(text, e - 1) THEN e
             ELSE 0

\* re.search(rf"\b{lit}(?:'s)?\b", text)
WordSearch(text, lit) == \E i \in 1..Len(text) : WordMatchEnd(text, i, lit) # 0

RECURSIVE CountWordMatches(_, _, _)
\* len(re.findall(rf"\b{lit}(?:'s)?\b", text)) scanning from index i: the
\* leftmost match from i on, then the matches after its end
CountWordMatches(text, i, lit) ==
    LET starts == {j \in i..Len(text) : WordMatchEnd(text, j, lit) # 0}
    IN  IF starts = {} THEN 0
        ELSE LET first == CHOOSE j \in starts : \A k \in starts : j <= k
             IN  1 + CountWordMatches(text, Max(WordMatchEnd(text, first, lit), first + 1), lit)

RECURSIVE CountOccurrences(_, _, _)
\* text.count(sub) scanning from index i (non-overlapping occurrences)
CountOccurrences(text, i, sub) ==
    LET starts == {j \in i..Len(text) : LitAt(text, j, sub)}
    IN  IF sub = <<>> THEN Len(text) + 1
        ELSE IF starts = {} THEN 0
        ELSE LET first == CHOOSE j \in starts : \A k \in starts : j <= k
             IN  1 + CountOccurrences(text, first + Len(sub), sub)

RECURSIVE ReplaceChar(_, _, _)
\* s.replace(a, b) for a one-character a
ReplaceChar(s, a, b) ==
    IF s = <<>> THEN <<>>
    ELSE (IF Head(s) = a THEN b ELSE <<Head(s)>>) \o ReplaceChar(Tail(s), a, b)

\* s.split(): the maximal runs of non-whitespace characters
SplitWords(s) ==
    LET n == Len(s)
        starts == SelectSeq(Indices(n),
                            LAMBDA i : ~ IsSpace(s[i]) /\ (i = 1 \/ IsSpace(s[i - 1])))
        ends == SelectSeq(Indices(n),
                          LAMBDA i : ~ IsSpace(s[i]) /\ (i = n \/ IsSpace(s[i + 1])))
    IN  [k \in 1..Len(starts) |-> SubSeq(s, starts[k], ends[k])]

\* s[i] and s[i+1] are a separator of s.split('\n\n'): two line feeds, an
\* even number of characters after the start of their run of line feeds
IsParagraphBreak(s, i) ==
    /\ i < Len(s) /\ s[i] = "\n" /\ s[i + 1] = "\n"
    /\ LET run == CHOOSE j \in 1..i : /\ \A k \in j..i : s[k] = "\n"
                                      /\ (j = 1 \/ s[j - 1] # "\n")
       IN  (i - run) % 2 = 0

\* s.split('\n\n')
SplitParagraphs(s) ==
    LET n == Len(s)
        breaks == SelectSeq(Indices(n), LAMBDA i : IsParagraphBreak(s, i))
    IN  [k \in 1..(Len(breaks) + 1) |->
            SubSeq(s, IF k = 1 THEN 1 ELSE breaks[k - 1] + 2,
                      IF k = Len(breaks) + 1 THEN n ELSE breaks[k] - 1)]

\* the maximal runs of \w characters of s
WordRuns(s) ==
    LET n == Len(s)
        starts == SelectSeq(Indices(n),
                            LAMBDA i : IsWordChar(s[i]) /\ (i = 1 \/ ~ IsWordChar(s[i - 1])))
        ends == SelectSeq(Indices(n),
                          LAMBDA i : IsWordChar(s[i]) /\ (i = n \/ ~ IsWordChar(s[i + 1])))
    IN  [k \in 1..Len(starts) |-> SubSeq(s, starts[k], ends[k])]

\* re.findall(r'\b[a-zA-Z]{3,}\b', text): the \w runs made of at least three
\* letters and nothing else
LetterWords(text) ==
    SelectSeq(WordRuns(text),
              LAMBDA w : Len(w) >= 3 /\ \A i \in 1..Len(w) : IsAlpha(w[i]))


-----------------------------------------------------------------------------
(* Brand mention detection *)

\* a character of the class [\s\-]
IsJoiner(c) == IsSpace(c) \/ c = "-"

RECURSIVE FlexibleAt(_, _, _)
\* the words, joined by [\s\-]+ and followed by (?:'s)?\b, match at index i
FlexibleAt(text, i, words) ==
    /\ LitAt(text, i, Head(words))
    /\ LET e == i + Len(Head(words))
       IN  IF Len(words) = 1
           THEN \/ LitAt(text, e, Possessive) /\ Boundary(text, e + 1)
                \/ Boundary(text, e - 1)
           ELSE \E j \in (e + 1)..Len(text) :
                    /\ \A k \in e..(j - 1) : IsJoiner(text[k])
                    /\ FlexibleAt(text, j, Tail(words))

\* re.search(rf"\b{domain}\.com\b", text)
DomainSearch(text, domain) ==
    LET d == domain \o <<".", "c", "o", "m">>
    IN  \E i \in 1..Len(text) :
            Boundary(text, i - 1) /\ LitAt(text, i, d) /\ Boundary(text, i + Len(d) - 1)

\* AIOptimizationEngine._detect_brand_mention
detect_brand_mention(brand_name, response_text) ==
    IF response_text = <<>> \/ brand_name = <<>> THEN FALSE
    ELSE LET text == Lower(response_text)
             brand == Strip(Lower(brand_name))
             brand_words == SplitWords(brand)
             collapsed == ReplaceChar(brand, " ", <<>>)
             initials == [i \in 1..Len(brand_words) |-> brand_words[i][1]]
             variants == {brand, ReplaceChar(brand, "-", <<" ">>),
                          ReplaceChar(brand, " ", <<"-">>), collapsed}
                         \cup (IF Len(brand_words) > 1 /\ Len(initials) >= 2
                               THEN {initials} ELSE {})
         IN  \/ \E v \in variants : WordSearch(text, v)
             \/ /\ Len(brand_words) > 1
                /\ \E i \in 1..Len(text) :
                       Boundary(text, i - 1) /\ FlexibleAt(text, i, brand_words)
             \/ DomainSearch(text, collapsed)

-----------------------------------------------------------------------------
(* Content chunks *)

\* the stop words of _extract_simple_keywords that the pattern can match
KeywordStopWords ==
    { <<"t","h","e">>,
    <<"a","n","d">>,
    <<"b","u","t">>,
    <<"f","o","r">>,
    <<"w","i","t","h">>,
    <<"a","r","e">>,
    <<"w","a","s">>,
    <<"w","e","r","e">>,
    <<"b","e","e","n">>,
    <<"h","a","v","e">>,
    <<"h","a","s">>,
    <<"h","a","d">>,
    <<"d","o","e","s">>,
    <<"d","i","d">>,
    <<"w","i","l","l">>,
    <<"w","o","u","l","d">>,
    <<"c","o","u","l","d">>,
    <<"s","h","o","u","l","d">> }

CountOf(w, words) == Cardinality({i \in DOMAIN words : words[i] = w})

\* [word for word, _ in Counter(words).most_common(n)]: by falling count,
\* words of equal count in the order of their first occurrence
MostCommon(words, n) ==
    LET distinct == DictFromKeys(words)
        d == Len(distinct)
        counts == SubSeq([j \in 1..d |-> CountOf(distinct[j], words)], 1, d)
        Before(a, b) == counts[a] > counts[b] \/ (counts[a] = counts[b] /\ a < b)
        rank == SubSeq([j \in 1..d |-> Cardinality({a \in 1..d : Before(a, j)}) + 1], 1, d)
    IN  IF d = 0 \/ Len(counts) = 0 \/ Len(rank) = 0 THEN <<>>
        ELSE [r \in 1..Min(n, d) |-> distinct[CHOOSE j \in 1..d : rank[j] = r]]

MaxKeywords == 10

\* AIOptimizationEngine._extract_simple_keywords
extract_simple_keywords(text) ==
    LET keywords == SelectSeq(LetterWords(Lower(text)),
                              LAMBDA w : w \notin KeywordStopWords)
    IN  MostCommon(keywords, MaxKeywords)

\* the stop words of the fallback of _extract_semantic_tags
TagStopWords ==
    { <<"t","h","e">>,
    <<"a">>,
    <<"a","n">>,
    <<"a","n","d">>,
    <<"o","r">>,
    <<"b","u","t">>,
    <<"i","n">>,
    <<"o","n">>,
    <<"a","t">>,
    <<"t","o">>,
    <<"f","o","r">>,
    <<"o","f">>,
    <<"w","i","t","h">>,
    <<"b","y">> }

MaxFallbackTags == 10

\* AIOptimizationEngine._extract_semantic_tags: the tags of the nltk tagger
\* when it is installed (tagger is then the list it yields), else the
\* fallback of the except branch
extract_semantic_tags(tagger, text) ==
    IF tagger.installed THEN tagger.tags
    ELSE Take(SelectSeq(SplitWords(Lower(text)),
                        LAMBDA w : Len(w) > 3 /\ w \notin TagStopWords),
              MaxFallbackTags)

\* the indicators of structure
StructureIndicators == { <<":">>, <<"-">>, <<Bullet>>, <<"1", ".">>, <<"2", ".">> }

MinParagraphLen == 20

RECURSIVE ChunksOf_dropsfailed(_, _)
\* a plausible slip: a paragraph whose embedding fails is skipped
ChunksOf_dropsfailed(cfg, paragraphs) ==
    IF paragraphs = <<>> THEN <<>>
    ELSE LET para == Head(paragraphs)
             word_count == Len(SplitWords(para))
             embedded == /\ cfg.model.loaded /\ cfg.model.encodes
                         /\ para \notin cfg.model.raises_on
         IN  (IF Len(para) < MinParagraphLen \/ (cfg.model.loaded /\ ~ embedded) THEN <<>>
              ELSE << [text |-> para,
                       word_count |-> word_count,
                       embedding |-> embedded,
                       keywords |-> extract_simple_keywords(para),
                       semantic_tags |-> extract_semantic_tags(cfg.nltk, para),
                       has_structure |-> AnyIn(StructureIndicators, para),
                       confidence_score |-> Min(Scale, (word_count * Scale) \div 50)] >>)
             \o ChunksOf_dropsfailed(cfg, Tail(paragraphs))

RECURSIVE ChunksOf(_, _)
\* the loop of _create_content_chunks_from_sample over the paragraphs
ChunksOf(cfg, paragraphs) ==
    IF paragraphs = <<>> THEN <<>>
    ELSE LET para == Head(paragraphs)
             word_count == Len(SplitWords(para))
         IN  (IF Len(para) < MinParagraphLen THEN <<>>
              ELSE << [text |-> para,
                       word_count |-> word_count,
                       embedding |-> /\ cfg.model.loaded /\ cfg.model.encodes
                                     /\ para \notin cfg.model.raises_on,
                       keywords |-> extract_simple_keywords(para),
                       semantic_tags |-> extract_semantic_tags(cfg.nltk, para),
                       has_structure |-> AnyIn(StructureIndicators, para),
                       confidence_score |-> Min(Scale, (word_count * Scale) \div 50)] >>)
             \o ChunksOf(cfg, Tail(paragraphs))

\* AIOptimizationEngine._create_content_chunks_from_sample; a content sample
\* of None takes the branches of the empty string (lines 440 and 821) and is
\* written as the empty string
create_content_chunks_from_sample(cfg, content_sample) ==
    IF content_sample = <<>> THEN <<>>
    ELSE ChunksOf(cfg, SelectSeq([i \in 1..Len(SplitParagraphs(content_sample)) |->
                                      Strip(SplitParagraphs(content_sample)[i])],
                                 LAMBDA p : p # <<>>))

-----------------------------------------------------------------------------
(* The engine instance *)

\* an attribute that was never assigned (hasattr(self, ...) is false)
NoAttr == [hasattr |-> FALSE]

\* an attribute that was assigned v
Attr(v) == [hasattr |-> TRUE, value |-> v]

\* self.model is None: SentenceTransformer could not be loaded
NoModel == [loaded |-> FALSE, encodes |-> FALSE, cos_sim |-> 0, raises_on |-> {}]

\* nltk or its data are not installed: _extract_semantic_tags falls back
NoTagger == [installed |-> FALSE, tags |-> <<>>]

\* __init__ with no usable provider key and no embedding model
DegradedConfig ==
    [anthropic_client |-> FALSE, openai_client |-> FALSE, perplexity_client |-> FALSE,
     model |-> NoModel, nltk |-> NoTagger, hash_seed |-> 0, use_real_tracking |-> FALSE,
     llm_only_queries |-> FALSE, product_categories |-> <<>>]

\* the instance right after __init__(cfg)
EngineFresh(cfg) ==
    /\ config = cfg
    /\ current_brand = NoAttr
    /\ visibility_query_cache = NoAttr
    /\ visibility_stats = NoAttr

engine_vars == <<config, current_brand, visibility_query_cache, visibility_stats>>

-----------------------------------------------------------------------------
(* Metric helpers.  A helper that can raise yields Val(x) or NameError.     *)

\* num / den rounded to the nearest integer (round(x, 4) in units of 1/Scale)
Round(num, den) == (2 * num + den) \div (2 * den)

Val(x) == [ok |-> TRUE, value |-> x]

\* the name brand_name is not bound in the helper that evaluates it
NameError == [ok |-> FALSE, error |-> "NameError"]

Unknown == <<"U", "n", "k", "n", "o", "w", "n">>

\* f(brand_name if hasattr(self, 'current_brand') else 'Unknown') inside a
\* helper that has no brand_name: the conditional reads brand_name whenever
\* the attribute was set; on_unknown is f('Unknown')
OfBrandNameOrUnknown(cb, on_unknown) ==
    IF cb.hasattr THEN NameError ELSE Val(on_unknown)

\* len(set(c for c in s if keep(c)))
DistinctChars(s) == Cardinality(Range(s))

Letters(s) == SelectSeq(s, IsAlpha)

Vowels == {"a", "e", "i", "o", "u"}

\* AIOptimizationEngine._calculate_brand_strength_score
calculate_brand_strength_score(brand_name) ==
    IF brand_name = <<>> THEN Scale \div 2
    ELSE LET name == Lower(Strip(brand_name))
             letters == Len(Letters(name))
             distinct == DistinctChars(Letters(name))
             consonants == Len(SelectSeq(Letters(name), LAMBDA c : c \notin Vowels))
             a == Max(1, letters)
             \* base * 120 * a, base = 0.4*length_factor + 0.4*uniqueness + 0.2*ratio
             base120a == 4 * Min(12, Len(name)) * a + 48 * distinct + 24 * consonants
             jitter == (MD5Hex4(name) % 15) * (Scale \div 100)
         IN  Clamp(0, Round(85 * 100 * base120a, 120 * a) + jitter, Scale)

\* the multipliers of _estimate_coverage_from_brand_name, in hundredths
CoverageMultiplier(industry) ==
    CASE industry = "technology" -> 80
      [] industry = "healthcare" -> 70
      [] industry = "finance" -> 65
      [] industry = "real estate" -> 60
      [] industry = "automotive" -> 75
      [] industry = "energy" -> 70
      [] OTHER -> 60

\* AIOptimizationEngine._estimate_coverage_from_brand_name
estimate_coverage_from_brand_name(brand_name) ==
    LET m == CoverageMultiplier(determine_industry_context(brand_name, <<>>))
        strength == calculate_brand_strength_score(brand_name)
    IN  Clamp(0, Round(m * (12000 + strength), 200), Scale)

\* the multipliers of _calculate_industry_relevance, in hundredths
RelevanceMultiplier(industry) ==
    CASE industry = "technology" -> 80
      [] industry = "healthcare" -> 70
      [] industry = "finance" -> 70
      [] industry = "real estate" -> 65
      [] industry = "automotive" -> 75
      [] industry = "energy" -> 70
      [] OTHER -> 60

\* AIOptimizationEngine._calculate_industry_relevance
calculate_industry_relevance(brand_name, product_categories) ==
    LET m == RelevanceMultiplier(determine_industry_context(brand_name, product_categories))
        strength == calculate_brand_strength_score(brand_name)
    IN  Clamp(0, 4000 + 40 * m + Round(strength, 5), Scale)

\* AIOptimizationEngine._calculate_error_recovery_score
calculate_error_recovery_score(brand_name) ==
    LET key == Lower(IF brand_name = <<>> THEN Unknown ELSE brand_name)
    IN  4500 + (MD5Hex2(key) % 20) * 50

\* AIOptimizationEngine._calculate_fallback_relevance
calculate_fallback_relevance(brand_name) ==
    4000 + Round(4 * calculate_brand_strength_score(brand_name), 10)

\* the industry boosts of _calculate_visibility_potential_fallback, in
\* hundredths (the key 'general_business' is never the industry's name)
VisibilityBoost(industry) ==
    CASE industry = "technology" -> 85
      [] industry = "healthcare" -> 75
      [] industry = "finance" -> 70
      [] OTHER -> 65

\* AIOptimizationEngine._calculate_visibility_potential_fallback
calculate_visibility_potential_fallback(brand_name) ==
    LET name == Lower(brand_name)
        n == Max(1, Len(name))
        strength == calculate_brand_strength_score(brand_name)
        \* 0.25 * length_factor + 0.25 * uniqueness + 0.20 * strength
        name_part == Round((2500 * Min(n, 8) + 2500 * DistinctChars(name)) * 5 + strength * n,
                           5 * n)
        boost_part == 30 * VisibilityBoost(determine_industry_context(brand_name, <<>>))
        consistency == (MD5Hex4(name) % 15) * (Scale \div 100)
    IN  Clamp(Scale \div 10,
              name_part + boost_part + consistency,
              9 * (Scale \div 10))

-----------------------------------------------------------------------------
(* Metrics computed from the content chunks.  The embedding model is the    *)
(* record config.model: loaded (self.model is not None), encodes (encode    *)
(* returns rather than raises) and cos_sim, the cosine similarity it gives  *)
(* a chunk and a question, in units of 1/Scale; its embeddings have norm 1. *)
(* raises_on is the set of paragraphs on which encode raises while the      *)
(* chunks are created.                                                      *)

\* the number of chunks c with test[c], test a sequence of truth values
CountTrue(test) == Len(SelectSeq(test, LAMBDA t : t))

\* AIOptimizationEngine._calculate_chunk_retrieval_frequency
calculate_chunk_retrieval_frequency(chunks) ==
    IF chunks = <<>> THEN 0
    ELSE LET score(c) == (IF c.word_count > 50 THEN 4000 ELSE 0)
                         + (IF c.has_structure THEN 3000 ELSE 0)
                         + (IF Len(c.keywords) > 3 THEN 3000 ELSE 0)
         IN  Min(Scale, SumSeq([i \in 1..Len(chunks) |-> score(chunks[i])]) \div Len(chunks))

\* AIOptimizationEngine._calculate_content_quality_score
calculate_content_quality_score(chunks) ==
    IF chunks = <<>> THEN 0
    ELSE LET s(c) == (IF c.word_count >= 50 THEN 3000
                      ELSE IF c.word_count >= 25 THEN 1500 ELSE 0)
                     + (IF c.has_structure THEN 2500 ELSE 0)
                     + (IF Len(c.keywords) >= 4 THEN 2500
                        ELSE IF Len(c.keywords) >= 2 THEN 1500 ELSE 0)
                     + Min(2000, Max(0, c.confidence_score) \div 5)
             total == SumSeq([i \in 1..Len(chunks) |-> Min(Scale, s(chunks[i]))])
         IN  Min(Scale, Round(total, Len(chunks)))

\* AIOptimizationEngine._calculate_embedding_relevance
calculate_embedding_relevance(cfg, cb, chunks, queries) ==
    IF chunks = <<>> \/ queries = <<>> \/ ~ cfg.model.loaded
    THEN OfBrandNameOrUnknown(cb, calculate_fallback_relevance(Unknown))
    ELSE IF ~ cfg.model.encodes
    THEN OfBrandNameOrUnknown(cb, calculate_error_recovery_score(Unknown))
    ELSE IF CountTrue([i \in 1..Len(chunks) |-> chunks[i].embedding]) > 0
    THEN Val(Clamp(0, cfg.model.cos_sim, Scale))
    ELSE Val(calculate_content_quality_score(chunks))

\* AIOptimizationEngine._calculate_attribution_rate
calculate_attribution_rate(brand_name, chunks) ==
    IF brand_name = <<>> \/ chunks = <<>> THEN 0
    ELSE Round(CountTrue([i \in 1..Len(chunks) |-> detect_brand_mention(brand_name, chunks[i].text)])
                   * Scale,
               Max(1, Len(chunks)))

\* AIOptimizationEngine._calculate_ai_citation_count
calculate_ai_citation_count(brand_name, chunks) ==
    IF brand_name = <<>> \/ chunks = <<>> THEN 0
    ELSE SumSeq([i \in 1..Len(chunks) |-> CountWordMatches(Lower(chunks[i].text), 1, Lower(brand_name))])

\* presence_score ** 0.9 for the two presence scores that embeddings of norm 1
\* give: one chunk (0.5 + 0.1 + 0.2) and several chunks (0.5 + 0.1 + 0.0)
Pow09(presence_score) ==
    CASE presence_score = 8000 -> 8181
      [] presence_score = 6000 -> 6314

\* AIOptimizationEngine._calculate_vector_index_presence
calculate_vector_index_presence(cb, chunks) ==
    LET valid == CountTrue([i \in 1..Len(chunks) |-> chunks[i].embedding])
    IN  IF chunks = <<>> \/ valid = 0
        THEN OfBrandNameOrUnknown(cb, calculate_error_recovery_score(Unknown))
        ELSE LET embedding_ratio == (valid * Scale) \div Len(chunks)
                 normalized_norm == Scale \div 3
                 diversity_score == IF valid > 1 THEN 0 ELSE Scale
                 presence_score == (5 * embedding_ratio + 3 * normalized_norm
                                    + 2 * diversity_score + 5) \div 10
             IN  Val(Clamp(0, Pow09(presence_score), Scale))

\* AIOptimizationEngine._calculate_confidence_from_content_quality
calculate_confidence_from_content_quality(chunks) ==
    IF chunks = <<>> THEN 4000
    ELSE LET s(c) == (IF c.word_count > 40 THEN 3000 ELSE 0)
                     + (IF c.has_structure THEN 3000 ELSE 0)
                     + (IF c.keywords # <<>> THEN 2000 ELSE 0)
                     + Min(2000, c.confidence_score \div 5)
             score == SumSeq([i \in 1..Len(chunks) |-> Min(Scale, s(chunks[i]))])
         IN  Min(Scale, Round(score, Len(chunks)))

\* AIOptimizationEngine._calculate_base_confidence_score
BaseConfidenceScore == 5000

\* AIOptimizationEngine._calculate_retrieval_confidence
calculate_retrieval_confidence(cfg, chunks, queries) ==
    IF chunks = <<>> \/ queries = <<>> \/ ~ cfg.model.loaded
    THEN calculate_confidence_from_content_quality(chunks)
    ELSE IF ~ cfg.model.encodes THEN BaseConfidenceScore
    ELSE LET scored == SelectSeq(chunks, LAMBDA c : c.embedding /\ c.confidence_score > 0)
             total_confidence ==
                 SumSeq([i \in 1..Len(scored) |-> cfg.model.cos_sim * scored[i].confidence_score])
         IN  IF scored = <<>> THEN BaseConfidenceScore
             ELSE Clamp(0, total_confidence \div (Scale * Len(chunks)), Scale)

\* the k of _calculate_rrf_rank_contribution and the 60 of its formula
RrfK == 10
RrfOffset == 60

\* AIOptimizationEngine._calculate_rrf_rank_contribution
calculate_rrf_rank_contribution(cfg, cb, chunks, queries) ==
    IF chunks = <<>> \/ queries = <<>> \/ ~ cfg.model.loaded THEN Val(0)
    ELSE IF ~ cfg.model.encodes
    THEN OfBrandNameOrUnknown(cb, calculate_error_recovery_score(Unknown))
    ELSE LET ranked == Min(RrfK, CountTrue([i \in 1..Len(chunks) |-> chunks[i].embedding]))
             \* query_rrf in units of 1e-9; every query has the same ranks
             query_rrf == SumSeq([rank \in 1..ranked |->
                                     (Scale * 100000) \div (rank + RrfOffset)])
         IN  Val(Min(Scale, Round(2 * query_rrf, 100000)))

\* AIOptimizationEngine._calculate_minimal_coverage_score
MinimalCoverageScore == 2000

\* the thresholds of _calculate_answer_coverage_safe
MinThreshold == 4000
MaxThreshold == 9000

\* coverage_score ** 0.8 for the coverage scores the similarities can give
Pow08(coverage_score) ==
    CASE coverage_score = 5000 -> 5743
      [] coverage_score = Scale -> Scale

\* AIOptimizationEngine._calculate_answer_coverage_safe
calculate_answer_coverage_safe(cfg, cb, chunks, queries) ==
    IF chunks = <<>> \/ queries = <<>> \/ ~ cfg.model.loaded
    THEN OfBrandNameOrUnknown(cb, estimate_coverage_from_brand_name(Unknown))
    ELSE LET valid_chunks == CountTrue([i \in 1..Len(chunks) |-> chunks[i].embedding])
             max_similarity == Max(0, cfg.model.cos_sim)
             normalized == Min(Scale, ((max_similarity - MinThreshold) * Scale)
                                          \div (MaxThreshold - MinThreshold))
         IN  IF ~ cfg.model.encodes \/ valid_chunks = 0 \/ max_similarity <= MinThreshold
             THEN Val(MinimalCoverageScore)
             ELSE Val(Clamp(0, Pow08(normalized), Scale))

\* AIOptimizationEngine._calculate_semantic_density
calculate_semantic_density(chunks) ==
    IF chunks = <<>> THEN 0
    ELSE LET density(c) == (IF c.word_count > 50 THEN 3000
                            ELSE IF c.word_count > 20 THEN 2000 ELSE 0)
                           + (IF c.has_structure THEN 3000 ELSE 0)
                           + (IF Len(c.keywords) > 3 THEN 4000
                              ELSE IF Len(c.keywords) > 1 THEN 2000 ELSE 0)
             total_density == SumSeq([i \in 1..Len(chunks) |-> Min(Scale, density(chunks[i]))])
         IN  Clamp(0, total_density \div Len(chunks), Scale)

\* AIOptimizationEngine._calculate_machine_authority
calculate_machine_authority(attribution_rate, semantic_density, index_presence) ==
    Clamp(0, (4 * attribution_rate + 3 * semantic_density + 3 * index_presence) \div 10,
          Scale)

\* AIOptimizationEngine._calculate_amanda_crast_score
calculate_amanda_crast_score(cb, chunks) ==
    IF chunks = <<>>
    THEN OfBrandNameOrUnknown(cb, calculate_error_recovery_score(Unknown))
    ELSE LET chunk_score(c) ==
                 (IF 50 <= c.word_count /\ c.word_count <= 150 THEN 3000
                  ELSE IF c.word_count > 150 THEN 2000 ELSE 1000)
                 + (IF c.has_structure THEN 2000 ELSE 0)
                 + Min(2000, Len(c.keywords) * 500)
                 + Min(3000, Len(c.semantic_tags) * 1000)
                 + c.confidence_score \div 5
             total_score == SumSeq([i \in 1..Len(chunks) |-> Min(Scale, chunk_score(chunks[i]))])
         IN  Val(Clamp(0, Round(total_score * 125, Len(chunks) * 100), Scale))

\* the phrases of question-answering content
QuestionPhrases ==
    { <<"w","h","a","t"," ","i","s">>, <<"h","o","w"," ","t","o">>, <<"w","h","y">>,
      <<"w","h","e","n">>, <<"w","h","e","r","e">>,
      <<"b","e","n","e","f","i","t","s">>, <<"a","d","v","a","n","t","a","g","e","s">> }

\* AIOptimizationEngine._calculate_zero_click_presence
calculate_zero_click_presence(cb, chunks) ==
    IF chunks = <<>> THEN 0
    ELSE LET n == Len(chunks)
             structured == CountTrue([i \in 1..Len(chunks) |-> chunks[i].has_structure])
             question == CountTrue([i \in 1..Len(chunks) |-> chunks[i].text # <<>> /\ AnyIn(QuestionPhrases, Lower(chunks[i].text))])
             good_length == CountTrue([i \in 1..Len(chunks) |-> 30 <= chunks[i].word_count /\ chunks[i].word_count <= 200])
             keyword == CountTrue([i \in 1..Len(chunks) |-> Len(chunks[i].keywords) >= 2])
             brand_boost == IF cb.hasattr /\ cb.value # <<>>
                            THEN (MD5Hex6(Lower(cb.value)) % 20) * (Scale \div 100)
                            ELSE 0
             \* total_score * n, in units of 1/Scale
             total_n == 3000 * structured + 2500 * question + 2500 * good_length
                        + 2000 * keyword + brand_boost * n
             \* round(0.1 + total_score * 0.7, 3)
             scaled_score == 10 * Round(10000 * n + 7 * total_n, 100 * n)
         IN  Clamp(1000, scaled_score, 8000)

-----------------------------------------------------------------------------
(* Brand visibility potential: the query cache and the statistics *)

\* the industry's name as a str
IndustryStr(industry) ==
      CASE industry = "technology" -> <<"t","e","c","h","n","o","l","o","g","y">>
        [] industry = "automotive" -> <<"a","u","t","o","m","o","t","i","v","e">>
        [] industry = "healthcare" -> <<"h","e","a","l","t","h","c","a","r","e">>
        [] industry = "finance" -> <<"f","i","n","a","n","c","e">>
        [] industry = "real estate" -> <<"r","e","a","l"," ","e","s","t","a","t","e">>
        [] industry = "energy" -> <<"e","n","e","r","g","y">>
        [] industry = "general business" -> <<"g","e","n","e","r","a","l"," ","b","u","s","i","n","e","s","s">>

\* hash(tuple(sorted(product_categories))): equal for two lists exactly when
\* they hold the same categories the same number of times
SortedCategoriesHash(product_categories) ==
    [c \in Range(product_categories) |->
        Cardinality({i \in DOMAIN product_categories : product_categories[i] = c})]

\* cache_key = f"{brand_name}_{hash(tuple(sorted(product_categories)))}"
CacheKey(brand_name, product_categories) ==
    [brand_name |-> brand_name, categories |-> SortedCategoriesHash(product_categories)]

\* AIOptimizationEngine._get_visibility_performance_stats
get_visibility_performance_stats(stats) ==
    IF stats.hasattr THEN stats.value
    ELSE [total_calculations |-> 0, llm_successful |-> 0, fallback_used |-> 0,
          cache_hits |-> 0, average_score |-> 0, last_updated |-> FALSE]

\* a plausible slip: a cache hit counted as a calculation but not as a hit
update_visibility_stats_nohit(stats, used_llm, score, cache_hit) ==
    LET s == get_visibility_performance_stats(stats)
        total == s.total_calculations + 1
    IN  Attr([total_calculations |-> total,
              llm_successful |-> s.llm_successful + (IF used_llm THEN 1 ELSE 0),
              fallback_used |-> s.fallback_used + (IF ~ used_llm THEN 1 ELSE 0),
              cache_hits |-> s.cache_hits,
              average_score |-> (s.average_score * (total - 1) + score) \div total,
              last_updated |-> TRUE])

\* AIOptimizationEngine._update_visibility_stats; last_updated records that a
\* time stamp was stored
update_visibility_stats(stats, used_llm, score, cache_hit) ==
    LET s == get_visibility_performance_stats(stats)
        total == s.total_calculations + 1
    IN  Attr([total_calculations |-> total,
              llm_successful |-> s.llm_successful
                                 + (IF ~ cache_hit /\ used_llm THEN 1 ELSE 0),
              fallback_used |-> s.fallback_used
                                + (IF ~ cache_hit /\ ~ used_llm THEN 1 ELSE 0),
              cache_hits |-> s.cache_hits + (IF cache_hit THEN 1 ELSE 0),
              average_score |-> (s.average_score * (total - 1) + score) \div total,
              last_updated |-> TRUE])

MaxVisibilityCategories == 3

RECURSIVE CategoryVisibilityQueries(_)
\* the four queries of each of the categories
CategoryVisibilityQueries(cats) ==
    IF cats = <<>> THEN <<>>
    ELSE LET category == Head(cats)
         IN  << <<"b","e","s","t"," ">> \o category \o <<" ","s","o","l","u","t","i","o","n","s">>,
             <<"t","o","p"," ">> \o category \o <<" ","p","r","o","v","i","d","e","r","s">>,
             category \o <<" ","c","o","m","p","a","r","i","s","o","n">>,
             <<"l","e","a","d","i","n","g"," ">> \o category \o <<" ","c","o","m","p","a","n","i","e","s">> >>
             \o CategoryVisibilityQueries(Tail(cats))

IndustryVisibilityQueries(industry) ==
    IF industry = "technology" THEN
        << <<"e","n","t","e","r","p","r","i","s","e"," ","s","o","f","t","w","a","r","e"," ","s","o","l","u","t","i","o","n","s">>,
           <<"c","l","o","u","d"," ","p","l","a","t","f","o","r","m"," ","p","r","o","v","i","d","e","r","s">>,
           <<"A","I"," ","t","e","c","h","n","o","l","o","g","y"," ","c","o","m","p","a","n","i","e","s">>,
           <<"s","o","f","t","w","a","r","e"," ","d","e","v","e","l","o","p","m","e","n","t"," ","t","o","o","l","s">> >>
    ELSE IF industry = "healthcare" THEN
        << <<"h","e","a","l","t","h","c","a","r","e"," ","t","e","c","h","n","o","l","o","g","y"," ","s","o","l","u","t","i","o","n","s">>,
           <<"m","e","d","i","c","a","l"," ","d","e","v","i","c","e"," ","c","o","m","p","a","n","i","e","s">>,
           <<"p","h","a","r","m","a","c","e","u","t","i","c","a","l"," ","p","r","o","v","i","d","e","r","s">>,
           <<"h","e","a","l","t","h"," ","m","a","n","a","g","e","m","e","n","t"," ","s","y","s","t","e","m","s">> >>
    ELSE IF industry = "finance" THEN
        << <<"f","i","n","a","n","c","i","a","l"," ","s","e","r","v","i","c","e","s"," ","p","r","o","v","i","d","e","r","s">>,
           <<"i","n","v","e","s","t","m","e","n","t"," ","m","a","n","a","g","e","m","e","n","t"," ","c","o","m","p","a","n","i","e","s">>,
           <<"f","i","n","t","e","c","h"," ","s","o","l","u","t","i","o","n","s">>,
           <<"b","a","n","k","i","n","g"," ","t","e","c","h","n","o","l","o","g","y">> >>
    ELSE
        << <<"b","u","s","i","n","e","s","s"," ","s","o","l","u","t","i","o","n","s"," ","p","r","o","v","i","d","e","r","s">>,
           <<"p","r","o","f","e","s","s","i","o","n","a","l"," ","s","e","r","v","i","c","e","s"," ","c","o","m","p","a","n","i","e","s">>,
           <<"i","n","d","u","s","t","r","y"," ","l","e","a","d","e","r","s">>,
           <<"m","a","r","k","e","t"," ","s","o","l","u","t","i","o","n","s">> >>

MaxVisibilityQueries == 15

\* list(set(queries)): the distinct queries in the order the set iterates,
\* which the interpreter's string hashing fixes for the process; seed 0 stands
\* for an order that keeps first occurrences, any other seed for its reverse
ListOfSet(queries, seed) ==
    LET d == DictFromKeys(queries)
    IN  IF seed = 0 THEN d ELSE [i \in 1..Len(d) |-> d[Len(d) + 1 - i]]

\* AIOptimizationEngine._generate_visibility_test_queries: the queries and the
\* cache and statistics it leaves
generate_visibility_test_queries(cfg, cache, stats, brand_name, product_categories) ==
    LET cache_key == CacheKey(brand_name, product_categories)
    IN  IF cache.hasattr /\ cache_key \in DOMAIN cache.value
        THEN [queries |-> cache.value[cache_key],
              cache |-> cache,
              stats |-> update_visibility_stats(stats, FALSE, 0, TRUE)]
        ELSE LET industry == determine_industry_context(brand_name, product_categories)
                 queries ==
                     CategoryVisibilityQueries(Take(product_categories, MaxVisibilityCategories))
                     \o IndustryVisibilityQueries(industry)
                     \o << <<"c","o","m","p","a","n","i","e","s"," ","l","i","k","e"," ">> \o brand_name,
                        brand_name \o <<" ","a","l","t","e","r","n","a","t","i","v","e","s">>,
                        brand_name \o <<" ","c","o","m","p","e","t","i","t","o","r","s">> >>
                 unique_queries == Take(ListOfSet(queries, cfg.hash_seed), MaxVisibilityQueries)
                 old == IF cache.hasattr THEN cache.value ELSE << >>
             IN  [queries |-> unique_queries,
                  cache |-> Attr((cache_key :> unique_queries) @@ old),
                  stats |-> stats]

NoScore == [ok |-> FALSE, error |-> "None"]

\* the multipliers of _test_brand_visibility_with_llm, in tenths (the key
\* 'general_business' is never the industry's name)
LlmVisibilityMultiplier(industry) ==
    CASE industry = "technology" -> 11
      [] industry = "healthcare" -> 9
      [] industry = "finance" -> 8
      [] OTHER -> 7

MaxTestedQueries == 8

\* AIOptimizationEngine._test_brand_visibility_with_llm; mentioned[i] tells
\* whether the response to the i-th tested query mentions the brand
test_brand_visibility_with_llm(cfg, brand_name, test_queries, mentioned) ==
    IF test_queries = <<>> \/ ~ (cfg.anthropic_client \/ cfg.openai_client) THEN NoScore
    ELSE LET total_queries == Len(Take(test_queries, MaxTestedQueries))
             total_mentions == CountTrue(Take(mentioned, total_queries))
             multiplier == LlmVisibilityMultiplier(determine_industry_context(brand_name, <<>>))
             \* 0.1 + visibility_percentage * multiplier * 0.8
             final_score == 1000 + Round(total_mentions * multiplier * 800, total_queries)
         IN  Val(Clamp(1000, final_score, 9000))

EmptyBrandVisibility == 3000

\* a plausible slip: the running average of the statistics returned in place
\* of the score
ReturnedVisibility_average(score, stats) == stats.value.average_score

\* return visibility_score, return fallback_score: the score just computed,
\* whatever the statistics hold after their update
ReturnedVisibility(score, stats) == score


\* what _calculate_brand_visibility_potential returns and leaves once the
\* score is known and the statistics are updated
VisibilityResult(score, cache, stats_after) ==
    [value |-> ReturnedVisibility(score, stats_after), cache |-> cache, stats |-> stats_after]

\* lines 2126 to 2139: the score of the LLM test when there is one, else the
\* heuristic fallback score; g is what the query generation left
VisibilityOutcome(g, visibility_score, fallback_score) ==
    IF visibility_score.ok
    THEN VisibilityResult(visibility_score.value, g.cache,
             update_visibility_stats(g.stats, TRUE, visibility_score.value, FALSE))
    ELSE VisibilityResult(fallback_score, g.cache,
             update_visibility_stats(g.stats, FALSE, fallback_score, FALSE))

\* AIOptimizationEngine._calculate_brand_visibility_potential: the score and
\* the cache and statistics it leaves
calculate_brand_visibility_potential(cfg, cache, stats, brand_name, product_categories, mentioned) ==
    IF brand_name = <<>>
    THEN [value |-> EmptyBrandVisibility, cache |-> cache, stats |-> stats]
    ELSE \* g = what _generate_visibility_test_queries returns and leaves
         LET tested(g) ==
                 VisibilityOutcome(g,
                     test_brand_visibility_with_llm(cfg, brand_name, g.queries, mentioned),
                     calculate_visibility_potential_fallback(brand_name))
         IN  tested(generate_visibility_test_queries(cfg, cache, stats, brand_name,
                                                     product_categories))

-----------------------------------------------------------------------------
(* The inputs of the metric computations and of the analysis *)

NoContent == <<>>
ShortContent == <<"s","h","o","r","t">>
OneParagraph == <<"N","o","v","a"," ","R","o","b","o","t","i","c","s"," ","b","u","i","l","d","s"," ","w","a","r","e","h","o","u","s","e"," ","a","u","t","o","m","a","t","i","o","n"," ","a","r","m","s",".">>
TwoParagraphs ==
    <<"W","h","a","t"," ","i","s"," ","A","c","m","e","?"," ","A","c","m","e","'","s"," ","p","l","a","t","f","o","r","m",":"," ","f","a","s","t",","," ","s","e","c","u","r","e"," ","a","n","d"," ","r","e","l","i","a","b","l","e",".","\n","\n","W","h","y"," ","t","e","a","m","s"," ","c","h","o","o","s","e"," ","a","c","m","e",".","c","o","m"," ","-"," ","b","e","n","e","f","i","t","s"," ","i","n","c","l","u","d","e"," ","s","p","e","e","d",".">>

\* the embedding model's cosine similarity for a chunk and a question
TypicalSimilarity == 6500

WithModel == [DegradedConfig EXCEPT !.model = [loaded |-> TRUE, encodes |-> TRUE, cos_sim |-> TypicalSimilarity,
                                    raises_on |-> {}]]

\* the instances: nothing configured; an embedding model; a model whose encode
\* raises; a model and the Anthropic client
EngineConfigs ==
    { DegradedConfig,
      WithModel,
      [WithModel EXCEPT !.model.encodes = FALSE],
      [WithModel EXCEPT !.anthropic_client = TRUE] }

\* the instances with llm_only_queries set: nothing else configured; a model
\* and the Anthropic client
StrictConfigs ==
    { [DegradedConfig EXCEPT !.llm_only_queries = TRUE],
      [WithModel EXCEPT !.anthropic_client = TRUE, !.llm_only_queries = TRUE] }

AnalysisConfigs == EngineConfigs \cup StrictConfigs

EngineBrands == {Acme, NovaRobotics, Alphabet1}
FastContents == {NoContent, ShortContent, TwoParagraphs}
AnalyzeContents == {NoContent, OneParagraph}
AnalyzeCategories == { <<>>, << <<"r","o","b","o","t","i","c","s">> >> }

\* whether the responses to the tested visibility queries mention the brand
MentionPatterns(cfg) ==
    IF cfg.anthropic_client \/ cfg.openai_client
    THEN { [i \in 1..MaxTestedQueries |-> b] : b \in BOOLEAN }
    ELSE { <<>> }

\* the llm_results of a run with no response, and of one with responses
LlmResults ==
    { [total_responses |-> 0, brand_mentions |-> 0],
      [total_responses |-> 4, brand_mentions |-> 2] }

\* a completion of four lines, one of them blank
PlainCompletion ==
    << <<"W","h","a","t"," ","i","s"," ","A","c","m","e","?">>,
       <<" "," ","A","c","m","e"," ","p","r","i","c","i","n","g"," "," ">>,
       <<>>,
       <<"H","o","w"," ","d","o","e","s"," ","A","c","m","e"," ","w","o","r","k","?">> >>

\* the provider is not configured
NotCalled == [kind |-> "none", lines |-> <<>>]

\* what the completion calls of the query generation do
AnalyzeOutcomes(cfg) ==
    { [perplexity |-> NotCalled, anthropic |-> a, openai |-> NotCalled] :
        a \in IF cfg.anthropic_client
              THEN { [kind |-> "raise", lines |-> <<>>], [kind |-> "ok", lines |-> PlainCompletion] }
              ELSE {NotCalled} }

\* int(md5(response_text).hexdigest()[:4], 16) of the simulated responses
ResponseHashes == {7}

-----------------------------------------------------------------------------
(* calculate_optimization_metrics_fast *)

\* the differentiators of the industry, joined by ', '
Differentiators(industry) ==
      CASE industry = "technology" -> <<"s","c","a","l","a","b","l","e",","," ","s","e","c","u","r","e",","," ","i","n","t","e","g","r","a","t","e","d">>
        [] industry = "automotive" -> <<"r","a","n","g","e",","," ","s","a","f","e","t","y",","," ","p","e","r","f","o","r","m","a","n","c","e">>
        [] industry = "healthcare" -> <<"e","f","f","i","c","a","c","y",","," ","s","a","f","e","t","y",","," ","c","o","m","p","l","i","a","n","c","e">>
        [] industry = "finance" -> <<"r","e","t","u","r","n","s",","," ","r","i","s","k"," ","m","a","n","a","g","e","m","e","n","t",","," ","c","o","m","p","l","i","a","n","c","e">>
        [] industry = "real estate" -> <<"l","o","c","a","t","i","o","n","s",","," ","v","a","l","u","e",","," ","t","r","u","s","t">>
        [] industry = "energy" -> <<"r","e","n","e","w","a","b","l","e",","," ","e","f","f","i","c","i","e","n","t",","," ","s","u","s","t","a","i","n","a","b","l","e">>
        [] OTHER -> <<"q","u","a","l","i","t","y",","," ","s","e","r","v","i","c","e",","," ","v","a","l","u","e">>

\* AIOptimizationEngine._generate_brand_specific_content
generate_brand_specific_content(brand_name) ==
    LET industry == determine_industry_context(brand_name, <<>>)
    IN  brand_name \o <<" ","o","p","e","r","a","t","e","s"," ","i","n"," ","t","h","e"," ">> \o IndustryStr(industry) \o <<" ","i","n","d","u","s","t","r","y","."," ","O","u","r"," ","f","o","c","u","s"," ","i","n","c","l","u","d","e","s"," ">>
        \o Differentiators(industry)
        \o <<"."," ","W","e"," ","p","r","o","v","i","d","e"," ","a","n","s","w","e","r","s"," ","t","o"," ","c","o","m","m","o","n"," ","q","u","e","s","t","i","o","n","s"," ","s","u","c","h"," ","a","s"," ","w","h","a","t"," ">>
        \o brand_name \o <<" ","i","s",","," ","h","o","w"," ","i","t"," ","h","e","l","p","s",","," ","a","n","d"," ","w","h","y"," ","i","t"," ","s","t","a","n","d","s"," ","o","u","t",".">>

\* the five test queries of calculate_optimization_metrics_fast
FastQueries(brand_name) ==
    << <<"W","h","a","t"," ","i","s"," ">> \o brand_name \o <<"?">>,
       <<"T","e","l","l"," ","m","e"," ","a","b","o","u","t"," ">> \o brand_name,
       <<"H","o","w"," ","g","o","o","d"," ","i","s"," ">> \o brand_name \o <<"?">>,
       brand_name \o <<" ","r","e","v","i","e","w","s">>,
       brand_name \o <<" ","p","r","o","d","u","c","t","s">> >>

\* the summary fields of the data-driven path of the fast computation
WithFastSummary(brand_name, m) ==
    [m EXCEPT !.overall_score = get_overall_score(m),
              !.performance_grade = get_consistent_grade(brand_name, get_overall_score(m)),
              !.performance_summary = Summary(get_overall_score(m))]


\* lines 525 and 526: the summary fields of the except branch
WithFallbackSummary(brand_name, m) ==
    [m EXCEPT !.overall_score = get_overall_score(m),
              !.performance_grade = get_consistent_grade(brand_name, get_overall_score(m))]

\* the fields of the except branch (lines 506 to 523) from the three scores
\* of the brand name that they use
FallbackFields(brand_name, brand_length_factor, distinct, strength, visibility) ==
    [NewMetrics EXCEPT
        !.chunk_retrieval_frequency = (brand_length_factor * 7) \div 10,
        !.embedding_relevance_score = Round(distinct * 8 * Scale, 260),
        !.attribution_rate = strength,
        !.ai_citation_count = Max(1, (Len(brand_name) * distinct * 20) \div 26),
        !.vector_index_presence_ratio = (brand_length_factor * 6) \div 10,
        \* (brand_length_factor + distinct / 26) / 2
        !.retrieval_confidence_score = Round(26 * brand_length_factor + distinct * Scale, 52),
        !.rrf_rank_contribution = Round(distinct * 7 * Scale, 260),
        !.llm_answer_coverage = estimate_coverage_from_brand_name(brand_name),
        !.ai_model_crawl_success_rate = (brand_length_factor * 8) \div 10,
        !.semantic_density_score = Round(distinct * 9 * Scale, 260),
        !.zero_click_surface_presence = visibility,
        !.machine_validated_authority =
            Round((26 * brand_length_factor + distinct * Scale) * 8, 520),
        !.brand_strength_score = strength,
        !.brand_visibility_potential = visibility,
        !.content_quality_score = Clamp(0, 4000 + Round(3 * distinct * Scale, 260), Scale),
        !.industry_relevance = Clamp(0, 5000 + (2 * brand_length_factor) \div 10, Scale)]

\* the except branch of calculate_optimization_metrics_fast: metrics from the
\* brand name alone; brand_complexity is the number of distinct characters
\* over 26
FastFallbackMetrics(brand_name) ==
    WithFallbackSummary(brand_name,
        FallbackFields(brand_name,
            Min(Scale, Len(brand_name) * (Scale \div 10)),
            DistinctChars(Lower(brand_name)),
            calculate_brand_strength_score(brand_name),
            calculate_visibility_potential_fallback(brand_name)))


\* lines 456 to 481 of the try block, from what the helpers return: raised
\* tells that one of the helpers that can raise did, which happens before the
\* visibility potential is computed
FastFields(chunk_retrieval_frequency, embedding_relevance, attribution_rate, ai_citation_count, vector_index_presence, retrieval_confidence, rrf_rank_contribution, answer_coverage, strength, semantic_density, zero_click, amanda_crast_score, content_quality, industry_relevance) ==
    IF \/ ~ embedding_relevance.ok
       \/ ~ vector_index_presence.ok
       \/ ~ rrf_rank_contribution.ok
       \/ ~ answer_coverage.ok
       \/ ~ amanda_crast_score.ok
    THEN [raised |-> TRUE, metrics |-> NewMetrics]
    ELSE [raised |-> FALSE,
          metrics |->
              [NewMetrics EXCEPT
                 !.chunk_retrieval_frequency = chunk_retrieval_frequency,
                 !.embedding_relevance_score = embedding_relevance.value,
                 !.attribution_rate = attribution_rate,
                 !.ai_citation_count = ai_citation_count,
                 !.vector_index_presence_ratio = vector_index_presence.value,
                 !.retrieval_confidence_score = retrieval_confidence,
                 !.rrf_rank_contribution = rrf_rank_contribution.value,
                 !.llm_answer_coverage = answer_coverage.value,
                 !.ai_model_crawl_success_rate = strength,
                 !.semantic_density_score = semantic_density,
                 !.zero_click_surface_presence = zero_click,
                 !.machine_validated_authority =
                     calculate_machine_authority(attribution_rate, semantic_density,
                                                 vector_index_presence.value),
                 !.amanda_crast_score = amanda_crast_score.value,
                 !.brand_strength_score = strength,
                 !.content_quality_score = content_quality,
                 !.industry_relevance = industry_relevance]]

\* the helpers of the try block applied to the chunks and the queries, on the
\* instance whose current_brand attribute is current
FastFieldsOfChunks(cfg, brand_name, current, chunks, queries) ==
    FastFields(calculate_chunk_retrieval_frequency(chunks),
               calculate_embedding_relevance(cfg, current, chunks, queries),
               calculate_attribution_rate(brand_name, chunks),
               calculate_ai_citation_count(brand_name, chunks),
               calculate_vector_index_presence(current, chunks),
               calculate_retrieval_confidence(cfg, chunks, queries),
               calculate_rrf_rank_contribution(cfg, current, chunks, queries),
               calculate_answer_coverage_safe(cfg, current, chunks, queries),
               calculate_brand_strength_score(brand_name),
               calculate_semantic_density(chunks),
               calculate_zero_click_presence(current, chunks),
               calculate_amanda_crast_score(current, chunks),
               calculate_content_quality_score(chunks),
               calculate_industry_relevance(brand_name, <<>>))

\* the try block of calculate_optimization_metrics_fast but for the
\* visibility potential (lines 436 to 478, 480 and 481): what the content
\* gives, self.current_brand being brand_name from line 436 on
fast_content_metrics(cfg, brand_name, content_sample) ==
    FastFieldsOfChunks(cfg, brand_name, Attr(brand_name),
        create_content_chunks_from_sample(cfg,
            IF content_sample # <<>> THEN content_sample
            ELSE generate_brand_specific_content(brand_name)),
        FastQueries(brand_name))

\* _create_content_chunks_from_sample for the inputs of the specifications,
\* computed once
ContentChunksTable ==
    [x \in AnalysisConfigs \X (FastContents \cup AnalyzeContents) |->
        create_content_chunks_from_sample(x[1], x[2])] @@ << >>


\* _create_content_chunks_from_sample, looked up
ContentChunks(cfg, content_sample) == ContentChunksTable[<<cfg, content_sample>>]

\* fast_content_metrics and the except branch for the inputs of the
\* specifications, computed once
FastContentTable ==
    [x \in AnalysisConfigs \X EngineBrands \X (FastContents \cup AnalyzeContents) |->
        fast_content_metrics(x[1], x[2], x[3])] @@ << >>
FastFallbackTable == [b \in EngineBrands |-> FastFallbackMetrics(b)] @@ << >>


\* fast_content_metrics, looked up
FastContent(cfg, brand_name, content_sample) ==
    FastContentTable[<<cfg, brand_name, content_sample>>]


\* FastFallbackMetrics, looked up
FastFallback(brand_name) == FastFallbackTable[brand_name]


\* what calculate_optimization_metrics_fast returns and leaves: the metrics of
\* the except branch when the content's part raised, else those of the try
\* block with the visibility potential and the summary fields
FastOutcome(brand_name, cache, stats, content, visibility) ==
    IF content.raised
    THEN [metrics |-> FastFallback(brand_name), path |-> "fallback",
          current_brand |-> Attr(brand_name), cache |-> cache, stats |-> stats]
    ELSE [metrics |-> WithFastSummary(brand_name,
              [content.metrics EXCEPT !.brand_visibility_potential = visibility.value]),
          path |-> "data",
          current_brand |-> Attr(brand_name), cache |-> visibility.cache,
          stats |-> visibility.stats]

\* AIOptimizationEngine.calculate_optimization_metrics_fast on the instance
\* with attributes cb, cache, stats: the metrics it returns and the
\* attributes it leaves
calculate_optimization_metrics_fast(cfg, cb, cache, stats, brand_name, content_sample, mentioned) ==
    FastOutcome(brand_name, cache, stats,
        FastContent(cfg, brand_name, content_sample),
        calculate_brand_visibility_potential(cfg, cache, stats, brand_name,
                                             cfg.product_categories, mentioned))

-----------------------------------------------------------------------------
(* _calculate_optimization_metrics *)


\* the except branch of _calculate_optimization_metrics: the metrics as far as
\* they were assigned, with the grade "E"
Fail(metrics) == [metrics EXCEPT !.performance_grade = "E"]

\* lines 627 to 633: the summary fields of the success path
WithSummary(m) ==
    [m EXCEPT !.performance_summary = Summary(get_overall_score(m)),
              !.overall_score = get_overall_score(m),
              !.performance_grade = get_performance_grade(m)]

\* the assignments of _calculate_optimization_metrics in their order, from
\* what the helpers return: the first helper that raised ends them
MetricsFields(llm_results, chunk_retrieval_frequency, embedding_relevance, vector_index_presence, retrieval_confidence, rrf_rank_contribution, answer_coverage, amanda_crast_score, semantic_density, zero_click) ==
    LET total_responses == Max(1, llm_results.total_responses)
        brand_mentions == llm_results.brand_mentions
        m1 == [NewMetrics EXCEPT !.chunk_retrieval_frequency = chunk_retrieval_frequency]
        m4 == [m1 EXCEPT
                 !.embedding_relevance_score = embedding_relevance.value,
                 !.attribution_rate = Round(brand_mentions * Scale, total_responses),
                 !.ai_citation_count = brand_mentions]
        m6 == [m4 EXCEPT
                 !.vector_index_presence_ratio = vector_index_presence.value,
                 !.retrieval_confidence_score = retrieval_confidence]
        m7 == [m6 EXCEPT !.rrf_rank_contribution = rrf_rank_contribution.value]
        m8 == [m7 EXCEPT !.llm_answer_coverage = answer_coverage.value]
        m12 == [m8 EXCEPT
                  !.amanda_crast_score = amanda_crast_score.value,
                  !.semantic_density_score = semantic_density,
                  !.zero_click_surface_presence = zero_click,
                  !.machine_validated_authority =
                      calculate_machine_authority(m8.attribution_rate, semantic_density,
                                                  m8.vector_index_presence_ratio)]
    IN  IF ~ embedding_relevance.ok THEN Fail(m1)
        ELSE IF ~ vector_index_presence.ok THEN Fail(m4)
        ELSE IF ~ rrf_rank_contribution.ok THEN Fail(m6)
        ELSE IF ~ answer_coverage.ok THEN Fail(m7)
        ELSE IF ~ amanda_crast_score.ok THEN Fail(m8)
        ELSE WithSummary(m12)

\* AIOptimizationEngine._calculate_optimization_metrics on the instance whose
\* current_brand attribute is cb; llm_results holds total_responses and
\* brand_mentions
calculate_optimization_metrics(cfg, cb, brand_name, content_chunks, queries, llm_results) ==
    MetricsFields(llm_results,
        calculate_chunk_retrieval_frequency(content_chunks),
        calculate_embedding_relevance(cfg, cb, content_chunks, queries),
        calculate_vector_index_presence(cb, content_chunks),
        calculate_retrieval_confidence(cfg, content_chunks, queries),
        calculate_rrf_rank_contribution(cfg, cb, content_chunks, queries),
        calculate_answer_coverage_safe(cfg, cb, content_chunks, queries),
        calculate_amanda_crast_score(cb, content_chunks),
        calculate_semantic_density(content_chunks),
        calculate_zero_click_presence(cb, content_chunks))

-----------------------------------------------------------------------------
(* analyze_brand_comprehensive *)

\* a position: None, or a number in units of 1/Scale
NoPosition == [is_none |-> TRUE]
Position(p) == [is_none |-> FALSE, value |-> p]

\* the position 5.0 that stands in where none was computed
DefaultPosition == 5 * Scale

PositiveIndicators ==
    { <<"r","e","c","o","m","m","e","n","d">>,
      <<"e","x","c","e","l","l","e","n","t">>,
      <<"b","e","s","t">>,
      <<"t","o","p">>,
      <<"l","e","a","d","i","n","g">>,
      <<"t","r","u","s","t","e","d">>,
      <<"r","e","l","i","a","b","l","e">>,
      <<"g","r","e","a","t">>,
      <<"g","o","o","d">>,
      <<"p","o","p","u","l","a","r">> }
NegativeIndicators ==
    { <<"a","v","o","i","d">>,
      <<"p","o","o","r">>,
      <<"w","o","r","s","t">>,
      <<"u","n","r","e","l","i","a","b","l","e">>,
      <<"p","r","o","b","l","e","m","a","t","i","c">>,
      <<"b","a","d">>,
      <<"i","s","s","u","e","s">>,
      <<"p","r","o","b","l","e","m","s">> }

\* a plausible slip: the final max(1.0, min(10.0, ...)) left off
calculate_response_position_unclamped(brand_name, response_text, brand_mentioned, response_hash) ==
    IF ~ brand_mentioned THEN NoPosition
    ELSE LET response_lower == Lower(response_text)
             mention_count == CountOccurrences(response_lower, 1, Lower(brand_name))
             mention_boost == Min(2 * Scale, mention_count * (Scale \div 2))
             positive_score ==
                 Cardinality({w \in PositiveIndicators : Contains(response_lower, w)})
             negative_score ==
                 Cardinality({w \in NegativeIndicators : Contains(response_lower, w)})
             quality_adjustment == positive_score * 8000 - negative_score * 15000
             base_position == 6 * Scale - 4 * calculate_brand_strength_score(brand_name)
             variation == (response_hash % 20) * (Scale \div 10) - Scale
             final_position == base_position - mention_boost - quality_adjustment + variation
         IN  Position((Scale \div 10) * Round(final_position, Scale \div 10))

\* the try body of AIOptimizationEngine._calculate_response_position;
\* response_hash is int(md5(response_text).hexdigest()[:4], 16)
calculate_response_position(brand_name, response_text, brand_mentioned, response_hash) ==
    IF ~ brand_mentioned THEN NoPosition
    ELSE LET response_lower == Lower(response_text)
             mention_count == CountOccurrences(response_lower, 1, Lower(brand_name))
             mention_boost == Min(2 * Scale, mention_count * (Scale \div 2))
             positive_score ==
                 Cardinality({w \in PositiveIndicators : Contains(response_lower, w)})
             negative_score ==
                 Cardinality({w \in NegativeIndicators : Contains(response_lower, w)})
             quality_adjustment == positive_score * 8000 - negative_score * 15000
             base_position == 6 * Scale - 4 * calculate_brand_strength_score(brand_name)
             variation == (response_hash % 20) * (Scale \div 10) - Scale
             final_position == base_position - mention_boost - quality_adjustment + variation
         IN  Position(Clamp(Scale, (Scale \div 10) * Round(final_position, Scale \div 10),
                            10 * Scale))

\* a response text: None, or a str
NoText == [is_none |-> TRUE, value |-> <<>>]
Text(t) == [is_none |-> FALSE, value |-> t]

\* the except branch of _calculate_response_position (lines 1826-1833)
response_position_fallback(brand_name) ==
    IF brand_name # <<>>
    THEN Position(3 * Scale + (MD5Hex4(Lower(brand_name)) % 5) * Scale)
    ELSE Position(DefaultPosition)

\* AIOptimizationEngine._calculate_response_position with its except branch:
\* response_text.lower() raises for a response that is None
response_position(brand_name, response_text, brand_mentioned, response_hash) ==
    IF brand_mentioned /\ response_text.is_none
    THEN response_position_fallback(brand_name)
    ELSE calculate_response_position(brand_name, response_text.value, brand_mentioned,
                                     response_hash)

\* the simulated response to the query q
SimulatedResponse(brand_name, q) ==
    brand_name \o <<" ","i","s"," ","k","n","o","w","n"," ","f","o","r"," ","i","n","n","o","v","a","t","i","o","n","."," ">> \o q

\* the entry of a query in all_queries
SimulatedEntry(q, mentioned, pos) ==
    [query |-> q, mentioned |-> mentioned,
     mention_count |-> IF mentioned THEN 1 ELSE 0, total_tests |-> 1,
     avg_position |-> pos, brand_mentioned |-> mentioned, position |-> pos]

\* the entry of the query q whose simulated response is response
EntryOfResponse(brand_name, q, response, response_hash) ==
    LET positioned(mentioned) ==
            SimulatedEntry(q, mentioned,
                calculate_response_position(brand_name, response, mentioned, response_hash))
    IN  positioned(detect_brand_mention(brand_name, response))

\* the list positions of _create_simulated_query_results: the positions of
\* the entries that mention the brand and have one
MentionedPositions(results) ==
    LET with_position == SelectSeq(results,
            LAMBDA r : r.mentioned /\ ~ r.position.is_none)
    IN  [i \in 1..Len(with_position) |-> with_position[i].position.value]

\* sum(positions) / len(positions) if positions else 5.0, to 1e-4 (truncated)
AveragePosition(positions) ==
    IF positions = <<>> THEN DefaultPosition
    ELSE SumSeq(positions) \div Len(positions)

\* the query analysis that _create_simulated_query_results returns for the
\* entries
SimulatedAnalysis(queries, results) ==
    LET total_mentions == CountTrue([i \in 1..Len(results) |-> results[i].mentioned])
    IN  [total_queries_generated |-> Len(queries),
         tested_queries |-> Len(results),
         success_rate |-> (total_mentions * Scale) \div Max(1, Len(results)),
         brand_mentions |-> total_mentions,
         all_queries |-> results,
         platform_breakdown |->
             [simulated |-> [responses |-> Len(results), mentions |-> total_mentions]],
         summary_metrics |->
             [total_mentions |-> total_mentions,
              total_tests |-> Len(results),
              avg_position |-> AveragePosition(MentionedPositions(results))]]

\* a plausible slip: only the first ten queries are tested
create_simulated_query_results_first10(brand_name, queries, response_hash) ==
    SimulatedAnalysis(queries,
        [i \in 1..Min(10, Len(queries)) |->
            EntryOfResponse(brand_name, queries[i],
                            SimulatedResponse(brand_name, queries[i]), response_hash)])

\* AIOptimizationEngine._create_simulated_query_results; response_hash stands
\* for the digest of every simulated response of the call
create_simulated_query_results(brand_name, queries, response_hash) ==
    SimulatedAnalysis(queries,
        [i \in 1..Len(queries) |->
            EntryOfResponse(brand_name, queries[i],
                            SimulatedResponse(brand_name, queries[i]), response_hash)])

MaxRealQueries == 10

\* the query analysis of analyze_brand_comprehensive when a provider is
\* configured: _test_llm_responses returns no response, so that no query of
\* queries[:10] has a response
real_query_analysis(queries) ==
    LET tested == Take(queries, MaxRealQueries)
    IN  [total_queries_generated |-> Len(queries),
         tested_queries |-> Len(tested),
         success_rate |-> 0,
         brand_mentions |-> 0,
         all_queries |-> [i \in 1..Len(tested) |->
                            [query |-> tested[i], mentioned |-> FALSE, mention_count |-> 0,
                             total_tests |-> 0, success_rate |-> 0,
                             avg_position |-> Position((9 * Scale) \div 2)]]]

\* the methods of AIOptimizationEngine that analyze_brand_comprehensive calls
\* after the query analysis, and those of them that the class defines
SummaryMethods == {"_get_consistent_grade", "_identify_strengths", "_identify_weaknesses", "_generate_implementation_roadmap"}
DefinedMethods == {"_get_consistent_grade"}

\* _generate_semantic_queries for the inputs of the specifications, computed
\* once
SemanticQueriesTable ==
    [x \in AnalysisConfigs \X EngineBrands \X AnalyzeCategories
            \X UNION {AnalyzeOutcomes(cfg) : cfg \in AnalysisConfigs} |->
        generate_semantic_queries(x[1], x[2], x[3], x[4])] @@ << >>


\* _generate_semantic_queries, looked up
SemanticQueries(cfg, brand_name, product_categories, outcomes) ==
    SemanticQueriesTable[<<cfg, brand_name, product_categories, outcomes>>]


\* lines 228 to 288: the query analysis, real when the Anthropic or the OpenAI
\* client is configured, else simulated
QueryAnalysis(cfg, brand_name, queries, response_hash) ==
    IF cfg.anthropic_client \/ cfg.openai_client
    THEN real_query_analysis(queries)
    ELSE create_simulated_query_results(brand_name, queries, response_hash)

\* the report of analyze_brand_comprehensive (lines 300 to 319)
AnalysisReport(cfg, brand_name, product_categories, content_sample, metrics, queries, query_analysis_results) ==
    [brand_name |-> brand_name,
     optimization_metrics |-> metrics,
     performance_summary |->
         [overall_score |-> get_overall_score(metrics),
          performance_grade |->
              get_consistent_grade(brand_name, get_overall_score(metrics))],
     semantic_queries |-> queries,
     query_analysis |-> query_analysis_results,
     metadata |->
         [categories_analyzed |-> product_categories,
          has_content_sample |-> content_sample # <<>>,
          total_queries_generated |-> Len(queries),
          analysis_method |-> IF cfg.use_real_tracking THEN "real_tracking"
                              ELSE "simulated",
          llm_apis_used |-> cfg.anthropic_client \/ cfg.openai_client]]

\* what analyze_brand_comprehensive returns or raises and leaves, fast being
\* what calculate_optimization_metrics_fast gave and generated what
\* _generate_semantic_queries gave
AnalysisOutcome(cfg, brand_name, product_categories, content_sample, response_hash, fast, generated) ==
    [result |-> IF generated.kind = "raise" THEN generated
                ELSE IF SummaryMethods \subseteq DefinedMethods
                THEN Returned(AnalysisReport(cfg, brand_name, product_categories,
                         content_sample, fast.metrics, generated.value,
                         QueryAnalysis(cfg, brand_name, generated.value, response_hash)))
                ELSE Raised("AttributeError"),
     current_brand |-> fast.current_brand, cache |-> fast.cache, stats |-> fast.stats]

\* AIOptimizationEngine.analyze_brand_comprehensive: what it returns or
\* raises, and the attributes it leaves
analyze_brand_comprehensive(cfg, cb, cache, stats, brand_name, product_categories, content_sample, outcomes, mentioned, response_hash) ==
    AnalysisOutcome(cfg, brand_name, product_categories, content_sample, response_hash,
        calculate_optimization_metrics_fast(cfg, cb, cache, stats, brand_name,
                                            content_sample, mentioned),
        SemanticQueries(cfg, brand_name, product_categories, outcomes))

-----------------------------------------------------------------------------
(* analyze_queries *)

\* AIOptimizationEngine._test_queries_across_platforms (the definition at
\* line 2607, which replaces the earlier one of the same name)
test_queries_across_platforms(brand_name, queries, response_hash) ==
    LET sim == create_simulated_query_results(brand_name, queries, response_hash)
    IN  [combined_query_results |-> sim.all_queries,
         platform_stats |-> sim.platform_breakdown,
         platforms_tested |-> <<"simulated">>,
         intent_insights |-> <<>>]

IntentKeywords ==
    [informational |-> {<<"w","h","a","t">>, <<"h","o","w">>, <<"w","h","y">>},
     transactional |-> {<<"b","u","y">>, <<"p","r","i","c","e">>, <<"c","o","s","t">>}]

\* AIOptimizationEngine._generate_intent_insights: the share of each intent
generate_intent_insights(brand_name, queries) ==
    LET lowered == [i \in 1..Len(queries) |-> Lower(queries[i])]
        count(keys) == Len(SelectSeq(lowered, LAMBDA q : \E k \in keys : Contains(q, k)))
        informational == count(IntentKeywords.informational)
        navigational == count({Lower(brand_name)})
        transactional == count(IntentKeywords.transactional)
        total == Max(1, informational + navigational + transactional)
    IN  [informational |-> Round(informational * Scale, total),
         navigational |-> Round(navigational * Scale, total),
         transactional |-> Round(transactional * Scale, total)]

\* the minimal result of the except branch of analyze_queries (lines 393-410)
MinimalAnalysis(error) ==
    [total_queries_generated |-> 0,
     tested_queries |-> 0,
     success_rate |-> 0,
     brand_mentions |-> 0,
     all_queries |-> <<>>,
     platform_breakdown |-> <<>>,
     summary_metrics |->
         [total_mentions |-> 0, total_tests |-> 0, avg_position |-> DefaultPosition,
          overall_score |-> 0, platforms_tested |-> <<>>],
     intent_insights |-> <<>>,
     error |-> error]

\* the result of analyze_queries when the Anthropic or the OpenAI client is
\* configured (lines 349-380), platform_results being what
\* _test_queries_across_platforms gave
PlatformAnalysis(queries, platform_results) ==
    LET all_queries == platform_results.combined_query_results
        mentioned_queries == SelectSeq(all_queries, LAMBDA q : q.brand_mentioned)
        total_mentions == Len(mentioned_queries)
        total_tested == Len(all_queries)
        success_rate == (total_mentions * Scale) \div Max(1, total_tested)
    IN  [total_queries_generated |-> Len(queries),
         tested_queries |-> total_tested,
         success_rate |-> success_rate,
         brand_mentions |-> total_mentions,
         all_queries |-> all_queries,
         platform_breakdown |-> platform_results.platform_stats,
         summary_metrics |->
             [total_mentions |-> total_mentions,
              total_tests |-> total_tested,
              avg_position |->
                  AveragePosition([i \in 1..Len(mentioned_queries) |->
                      mentioned_queries[i].avg_position.value]),
              overall_score |-> success_rate,
              platforms_tested |-> platform_results.platforms_tested],
         intent_insights |-> platform_results.intent_insights]

\* AIOptimizationEngine.analyze_queries, generated being what
\* _generate_semantic_queries gave: whatever is raised inside is caught and
\* answered with the minimal result
QueriesOutcome(cfg, brand_name, response_hash, generated) ==
    IF generated.kind = "raise"
    THEN Returned(MinimalAnalysis(generated.error))
    ELSE IF cfg.anthropic_client \/ cfg.openai_client
    THEN Returned(PlatformAnalysis(generated.value,
             test_queries_across_platforms(brand_name, generated.value, response_hash)))
    ELSE Returned(create_simulated_query_results(brand_name, generated.value, response_hash)
                  @@ [intent_insights |-> generate_intent_insights(brand_name, generated.value)])

\* AIOptimizationEngine.analyze_queries
analyze_queries(cfg, brand_name, product_categories, outcomes, response_hash) ==
    QueriesOutcome(cfg, brand_name, response_hash,
        SemanticQueries(cfg, brand_name, product_categories, outcomes))

\* analyze_queries for the inputs of the specifications, computed once
AnalyzeQueriesTable ==
    [x \in AnalysisConfigs \X EngineBrands \X AnalyzeCategories
            \X (UNION {AnalyzeOutcomes(cfg) : cfg \in AnalysisConfigs}) \X ResponseHashes |->
        analyze_queries(x[1], x[2], x[3], x[4], x[5])] @@ << >>

-----------------------------------------------------------------------------
(* SPECIFICATIONS *)
-----------------------------------------------------------------------------
(* SpecScore: get_overall_score applied to metrics objects, in and out of range *)

MaxCitations == 80
MetricLevels == {0 - (Scale \div 2), 0, Scale \div 4, Scale, Scale + (Scale \div 2)}
CitationInputs == {0 - 4} \cup {c \in 0..MaxCitations : c % 10 = 0}

\* every core float field at level v, except field g at level w; count c
MetricObjects ==
    { [f \in DOMAIN NewMetrics |->
          IF f = "ai_citation_count" THEN c
          ELSE IF f = g THEN w
          ELSE IF f \in CoreFloatFields THEN v
          ELSE NewMetrics[f]] :
      v \in MetricLevels, w \in MetricLevels, g \in CoreFloatFields, c \in CitationInputs }

InitScore ==
    /\ EngineFresh(DegradedConfig)
    /\ op = "init" /\ args = <<>> /\ result = None
    /\ llm_requests = <<>>
    /\ tasks = <<>>

GetOverallScore ==
    \E m \in MetricObjects :
        /\ op = "init"
        /\ op' = "get_overall_score"
        /\ args' = m
        /\ result' = get_overall_score(m)
        /\ llm_requests' = <<>>
        /\ tasks' = <<>>
        /\ UNCHANGED engine_vars

NextScore == GetOverallScore

SpecScore == InitScore /\ [][NextScore]_vars

-----------------------------------------------------------------------------
(* SpecGrade: _get_consistent_grade over a grid of scores and brand names *)

GridPoints == 2000
GradeBrands == {EmptyStr, Acme, AppleInc, DataTech, NovaRobotics}

\* the grid, and the scores just below and at each multiple of 0.05
ScoreInputs ==
    { (k * ScoreScale) \div GridPoints : k \in 0..GridPoints }
    \cup { t * 50000 - e : t \in 1..20, e \in {0, 1, 999, 1000, 1001, 1999, 2000, 2001, 3001} }

InitGrade ==
    /\ EngineFresh(DegradedConfig)
    /\ op = "init" /\ args = <<>> /\ result = None
    /\ llm_requests = <<>>
    /\ tasks = <<>>

GetConsistentGrade ==
    \E b \in GradeBrands, sc \in ScoreInputs :
        /\ op = "init"
        /\ op' = "_get_consistent_grade"
        /\ args' = [brand_name |-> b, overall_score |-> sc]
        /\ result' = get_consistent_grade(b, sc)
        /\ llm_requests' = <<>>
        /\ tasks' = <<>>
        /\ UNCHANGED engine_vars

NextGrade == GetConsistentGrade

SpecGrade == InitGrade /\ [][NextGrade]_vars

(* SpecQueries: _generate_semantic_queries over engine configurations, *)
(* brands, category lists and provider completions                     *)

MaxCats == 7

CatPool ==
    << <<"r","o","b","o","t","i","c","s">>,
       <<"a","u","t","o","m","a","t","i","o","n">>,
       <<"w","a","r","e","h","o","u","s","e">>,
       <<"s","e","n","s","o","r","s">>,
       <<"l","o","g","i","s","t","i","c","s">>,
       <<"v","i","s","i","o","n">>,
       <<"g","r","i","p","p","e","r","s">>,
       <<"d","r","o","n","e","s">>,
       <<"f","l","e","e","t">> >>

CategoryLists ==
    { Take(CatPool, n) : n \in {0, 1, MaxCats} } \cup
    { << <<"a","p","i">> >>, << <<" "," ">>, <<"P","r","i","c","i","n","g">> >>, << <<" ","a","p","i"," ">>, <<"a","p","i">> >> }

\* a brand name supplied with surrounding blanks (a competitor name of the
\* analysis request reaches analyze_queries as it was sent)
PaddedAcme == <<" ">> \o Acme \o <<" ">>

QueryBrands == {Acme, DataTech, NovaRobotics, PaddedAcme}

MaxLines == 16

\* content.split('\n') of the completions the providers return
MarkedCompletion ==
    << <<"-"," ","A","c","m","e"," ","p","r","i","c","i","n","g">>, <<"1","."," ","A","c","m","e"," ","r","e","v","i","e","w","s">>, <<Bullet, " ">> \o <<"A","c","m","e"," ","P","r","i","c","i","n","g">>, <<"a","c","m","e"," ","p","r","i","c","i","n","g">>, <<"*","A","c","m","e"," ","d","o","c","s">> >>
BulletCompletion ==
    << <<Bullet, "\r">> \o <<"A","c","m","e"," ","a","p","i">>, <<"A","c","m","e"," ","A","P","I">>, <<"a","c","m","e"," ","a","p","i">> >>
BlankCompletion ==
    << <<>>, <<" "," "," ">>, <<"-"," ","A","c","m","e">> >>
LongCompletion == [i \in 1..MaxLines |-> <<"A","c","m","e"," ","q","u","e","s","t","i","o","n"," ">> \o <<LowerChars[i]>>]

ProviderOutcomes ==
    { [kind |-> "raise", lines |-> <<>>] } \cup
    { [kind |-> "ok", lines |-> l] :
        l \in {PlainCompletion, MarkedCompletion, BulletCompletion,
               BlankCompletion, LongCompletion} }

\* what the completion calls do, for the providers that are configured
OutcomesFor(cfg) ==
    { [perplexity |-> p, anthropic |-> a, openai |-> o] :
        p \in IF cfg.perplexity_client THEN ProviderOutcomes ELSE {NotCalled},
        a \in IF cfg.anthropic_client THEN ProviderOutcomes ELSE {NotCalled},
        o \in IF cfg.openai_client THEN ProviderOutcomes ELSE {NotCalled} }

QueryConfigs ==
    { [DegradedConfig EXCEPT !.anthropic_client = a, !.openai_client = o,
                             !.perplexity_client = p, !.llm_only_queries = l] :
        a \in BOOLEAN, o \in BOOLEAN, p \in BOOLEAN, l \in BOOLEAN }

InitQueries ==
    /\ \E cfg \in QueryConfigs : EngineFresh(cfg)
    /\ op = "init"
    /\ args = <<>>
    /\ result = None
    /\ llm_requests = <<>>
    /\ tasks = <<>>

GenerateSemanticQueries ==
    \E brand_name \in QueryBrands, product_categories \in CategoryLists :
      \E outcomes \in OutcomesFor(config) :
        /\ op = "init"
        /\ op' = "_generate_semantic_queries"
        /\ args' = [brand_name |-> brand_name,
                    product_categories |-> product_categories,
                    outcomes |-> outcomes]
        /\ result' = generate_semantic_queries(config, brand_name,
                                               product_categories, outcomes)
        /\ llm_requests' = semantic_query_requests(config, outcomes)
        /\ tasks' = <<>>
        /\ UNCHANGED engine_vars

NextQueries == GenerateSemanticQueries

SpecQueries == InitQueries /\ [][NextQueries]_vars

-----------------------------------------------------------------------------
(* SpecMention: _detect_brand_mention over brands and response texts *)

\* str.upper()
Upper(s) ==
    [i \in 1..Len(s) |->
        IF \E k \in 1..26 : LowerChars[k] = s[i]
        THEN UpperChars[CHOOSE k \in 1..26 : LowerChars[k] = s[i]]
        ELSE s[i]]

AcmeCorp == <<"A","c","m","e"," ","C","o","r","p">>
TestBrand == <<"T","e","s","t"," ","B","r","a","n","d">>
TestHyphenBrand == <<"T","e","s","t","-","B","r","a","n","d">>
NovaRoboticsLab == <<"N","o","v","a"," ","R","o","b","o","t","i","c","s"," ","L","a","b">>

MentionBrands ==
    {AcmeCorp, AppleInc, TestBrand, TestHyphenBrand, Lower(TestBrand),
     Upper(TestHyphenBrand), NovaRoboticsLab, ReplaceChar(NovaRoboticsLab, " ", <<"-">>)}

\* the words of a brand name, its separators being blanks and hyphens
BrandWords(brand_name) == SplitWords(ReplaceChar(brand_name, "-", <<" ">>))

RECURSIVE Joined(_, _)
\* the words written one after the other with sep between them
Joined(words, sep) ==
    IF Len(words) = 1 THEN words[1]
    ELSE words[1] \o sep \o Joined(Tail(words), sep)

\* a sentence around a phrase
Carrier(phrase) == <<"w","e"," ","u","s","e"," ">> \o phrase \o <<" ","d","a","i","l","y">>

\* the texts that hold the words of the brand joined by a blank, joined by a
\* hyphen or written together, in the brand's, in lower and in upper case
JoinedTexts(brand_name) ==
    UNION { {Carrier(f), Lower(Carrier(f)), Upper(Carrier(f))} :
              f \in { Joined(BrandWords(brand_name), sep) :
                         sep \in {<<" ">>, <<"-">>, <<>>} } }

\* the texts that hold only the leading word of the brand, with a possessive
\* 's and bare
LeadingWordTexts(brand_name) ==
    { <<"I"," ","l","o","v","e"," ">> \o BrandWords(brand_name)[1] \o <<"'","s"," ","s","e","r","v","i","c","e">>,
      BrandWords(brand_name)[1] \o <<" ","i","s"," ","i","n","n","o","v","a","t","i","v","e">> }

\* texts with no word of any brand
UnrelatedTexts == { <<"u","n","r","e","l","a","t","e","d"," ","t","e","x","t">>, <<"T","h","i","s"," ","c","o","m","p","a","n","y"," ","m","a","k","e","s"," ","p","h","o","n","e","s">> }

MentionTexts ==
    UnrelatedTexts
    \cup UNION { JoinedTexts(b) \cup LeadingWordTexts(b) : b \in MentionBrands }
    \cup { <<"A","p","p","l","e"," ","I","n","c"," ","i","s"," ","a"," ","g","r","e","a","t"," ","c","o","m","p","a","n","y">> }

InitMention ==
    /\ EngineFresh(DegradedConfig)
    /\ op = "init" /\ args = <<>> /\ result = None
    /\ llm_requests = <<>>
    /\ tasks = <<>>

DetectBrandMention ==
    \E brand_name \in MentionBrands, response_text \in MentionTexts :
        /\ op = "init"
        /\ op' = "_detect_brand_mention"
        /\ args' = [brand_name |-> brand_name, response_text |-> response_text]
        /\ result' = detect_brand_mention(brand_name, response_text)
        /\ llm_requests' = <<>>
        /\ tasks' = <<>>
        /\ UNCHANGED engine_vars

NextMention == DetectBrandMention

SpecMention == InitMention /\ [][NextMention]_vars

-----------------------------------------------------------------------------
(* SpecVisibility: _test_brand_visibility_with_llm over the outcomes of the *)
(* provider calls it makes                                                  *)

VisibilityConfigs ==
    { DegradedConfig,
      [DegradedConfig EXCEPT !.anthropic_client = TRUE],
      [DegradedConfig EXCEPT !.openai_client = TRUE] }

VisibilityBrands == {Acme, DataTech}

\* n test queries
TestQueries(brand_name, n) ==
    [i \in 1..n |-> brand_name \o <<" ","q","u","e","s","t","i","o","n"," ">> \o <<LowerChars[i]>>]

\* what a call of _generate_query_response does: the provider answers and
\* the answer mentions the brand, it answers without mentioning it, or the
\* provider call fails
CallOutcomes == {"mentions", "silent", "fails"}

MaxPatternLen == 3

\* the outcomes of the calls for n tested queries: every pattern for few
\* queries, uniform and alternating patterns for more
CallPatterns(n) ==
    IF n <= MaxPatternLen THEN [1..n -> CallOutcomes]
    ELSE { [i \in 1..n |-> o] : o \in CallOutcomes }
         \cup { [i \in 1..n |-> IF i % 2 = 0 THEN "fails" ELSE o] :
                   o \in {"mentions", "silent"} }

\* _generate_query_response returns "" for a call that fails, and the loop
\* skips an empty response: only an answer that mentions the brand counts
MentionsOf(responses) == [i \in 1..Len(responses) |-> responses[i] = "mentions"]

InitVisibility ==
    /\ \E cfg \in VisibilityConfigs : EngineFresh(cfg)
    /\ op = "init" /\ args = <<>> /\ result = None
    /\ llm_requests = <<>>
    /\ tasks = <<>>

TestBrandVisibilityWithLlm ==
    \E brand_name \in VisibilityBrands, n \in {0, 1, 2, 3, MaxTestedQueries, MaxTestedQueries + 2} :
      \E responses \in CallPatterns(Min(n, MaxTestedQueries)) :
        /\ op = "init"
        /\ op' = "_test_brand_visibility_with_llm"
        /\ args' = [brand_name |-> brand_name, test_queries |-> TestQueries(brand_name, n),
                    responses |-> responses]
        /\ result' = test_brand_visibility_with_llm(config, brand_name,
                          TestQueries(brand_name, n), MentionsOf(responses))
        /\ llm_requests' = <<>>
        /\ tasks' = <<>>
        /\ UNCHANGED engine_vars

NextVisibility == TestBrandVisibilityWithLlm

SpecVisibility == InitVisibility /\ [][NextVisibility]_vars

-----------------------------------------------------------------------------
(* SpecEngine: the metric computations and the analysis on one engine instance *)

\* the number of statistics updates after which no further call is explored
MaxCalls == 3

CallsLeft == get_visibility_performance_stats(visibility_stats).total_calculations < MaxCalls

InitEngine ==
    /\ \E cfg \in EngineConfigs : EngineFresh(cfg)
    /\ op = "init"
    /\ args = <<>>
    /\ result = None
    /\ llm_requests = <<>>
    /\ tasks = <<>>

CalculateOptimizationMetricsFast ==
    /\ CallsLeft
    /\ \E brand_name \in EngineBrands, content_sample \in FastContents :
      \E mentioned \in MentionPatterns(config) :
        \E fast \in {calculate_optimization_metrics_fast(config, current_brand,
                        visibility_query_cache, visibility_stats, brand_name,
                        content_sample, mentioned)} :
            /\ op' = "calculate_optimization_metrics_fast"
            /\ args' = [brand_name |-> brand_name, content_sample |-> content_sample,
                        mentioned |-> mentioned]
            /\ result' = [kind |-> "return", value |-> fast.metrics, path |-> fast.path]
            /\ llm_requests' = <<>>
            /\ tasks' = <<>>
            /\ current_brand' = fast.current_brand
            /\ visibility_query_cache' = fast.cache
            /\ visibility_stats' = fast.stats
            /\ UNCHANGED config

CalculateOptimizationMetrics ==
    \E brand_name \in EngineBrands, content \in FastContents, llm_results \in LlmResults :
        /\ op' = "_calculate_optimization_metrics"
        /\ args' = [brand_name |-> brand_name, content |-> content,
                    llm_results |-> llm_results]
        /\ result' = Returned(calculate_optimization_metrics(config, current_brand,
                         brand_name, ContentChunks(config, content),
                         FastQueries(brand_name), llm_results))
        /\ llm_requests' = <<>>
        /\ tasks' = <<>>
        /\ UNCHANGED engine_vars

AnalyzeBrandComprehensive ==
    /\ CallsLeft
    /\ \E brand_name \in EngineBrands, content_sample \in AnalyzeContents :
      \E product_categories \in AnalyzeCategories, mentioned \in MentionPatterns(config) :
        \E outcomes \in AnalyzeOutcomes(config), response_hash \in ResponseHashes :
          \E a \in {analyze_brand_comprehensive(config, current_brand,
                       visibility_query_cache, visibility_stats, brand_name,
                       product_categories, content_sample, outcomes, mentioned,
                       response_hash)} :
              /\ op' = "analyze_brand_comprehensive"
              /\ args' = [brand_name |-> brand_name, content_sample |-> content_sample,
                          product_categories |-> product_categories,
                          outcomes |-> outcomes]
              /\ result' = a.result
              /\ llm_requests' = semantic_query_requests(config, outcomes)
              /\ tasks' = <<>>
              /\ current_brand' = a.current_brand
              /\ visibility_query_cache' = a.cache
              /\ visibility_stats' = a.stats
              /\ UNCHANGED config

NextEngine ==
    \/ CalculateOptimizationMetricsFast
    \/ CalculateOptimizationMetrics
    \/ AnalyzeBrandComprehensive

SpecEngine == InitEngine /\ [][NextEngine]_vars

-----------------------------------------------------------------------------
(* SpecAnalysis: the analyses and the response position on one engine *)
(* instance, llm_only_queries set or not                              *)

InitAnalysis ==
    /\ \E cfg \in AnalysisConfigs : EngineFresh(cfg)
    /\ op = "init"
    /\ args = <<>>
    /\ result = None
    /\ llm_requests = <<>>
    /\ tasks = <<>>

\* responses full of praise, full of blame, and plain
PraisingResponse == <<"A","c","m","e"," ","i","s"," ","t","h","e"," ","b","e","s","t",":"," ","a"," ","t","o","p",","," ","l","e","a","d","i","n","g",","," ","t","r","u","s","t","e","d",","," ","r","e","l","i","a","b","l","e"," ","a","n","d"," ","p","o","p","u","l","a","r"," ","b","r","a","n","d","."," ","G","r","e","a","t"," ","p","r","o","d","u","c","t",","," ","g","o","o","d"," ","v","a","l","u","e",","," ","e","x","c","e","l","l","e","n","t"," ","s","u","p","p","o","r","t","."," ","W","e"," ","r","e","c","o","m","m","e","n","d"," ","A","c","m","e",".">>
BlamingResponse == <<"A","v","o","i","d"," ","i","t",":"," ","p","o","o","r"," ","b","u","i","l","d",","," ","t","h","e"," ","w","o","r","s","t"," ","a","n","d"," ","m","o","s","t"," ","u","n","r","e","l","i","a","b","l","e",","," ","p","r","o","b","l","e","m","a","t","i","c"," ","s","e","t","u","p",","," ","b","a","d"," ","s","u","p","p","o","r","t",","," ","m","a","n","y"," ","i","s","s","u","e","s"," ","a","n","d"," ","p","r","o","b","l","e","m","s",".">>
PositionResponses ==
    { NoText, Text(PraisingResponse), Text(BlamingResponse),
      Text(SimulatedResponse(Acme, <<"W","h","a","t"," ","i","s"," ","A","c","m","e","?">>)) }
PositionBrands == EngineBrands \cup {EmptyStr}
PositionHashes == {0, 7, 19}

CalculateResponsePosition ==
    \E brand_name \in PositionBrands, response_text \in PositionResponses :
      \E brand_mentioned \in BOOLEAN, response_hash \in PositionHashes :
        /\ op = "init"
        /\ op' = "_calculate_response_position"
        /\ args' = [brand_name |-> brand_name, response_text |-> response_text,
                    brand_mentioned |-> brand_mentioned, response_hash |-> response_hash]
        /\ result' = response_position(brand_name, response_text, brand_mentioned,
                                       response_hash)
        /\ llm_requests' = <<>>
        /\ tasks' = <<>>
        /\ UNCHANGED engine_vars

AnalyzeQueries ==
    /\ CallsLeft
    /\ \E brand_name \in EngineBrands, product_categories \in AnalyzeCategories :
      \E outcomes \in AnalyzeOutcomes(config), response_hash \in ResponseHashes :
        /\ op' = "analyze_queries"
        /\ args' = [brand_name |-> brand_name, product_categories |-> product_categories,
                    outcomes |-> outcomes]
        /\ result' = AnalyzeQueriesTable[<<config, brand_name, product_categories,
                                           outcomes, response_hash>>]
        /\ llm_requests' = semantic_query_requests(config, outcomes)
        /\ tasks' = <<>>
        /\ UNCHANGED engine_vars

\* a brand name that ends in a character that is no word character: the
\* pattern's closing \b then needs a word character right after the name
AcmeBang == Acme \o <<"!">>
SimulatedBrands == {Acme, AcmeBang}

\* query lists as _generate_semantic_queries returns them (stripped, not
\* empty), and the empty list
SimulatedQueryLists ==
    { <<>>,
      << <<"W","h","a","t"," ","i","s"," ","A","c","m","e","?">> >>,
      << <<"W","h","a","t"," ","i","s"," ","A","c","m","e","!","?">>, <<"A","c","m","e","!","x"," ","p","r","i","c","i","n","g">>, <<"W","h","a","t"," ","i","s"," ","A","c","m","e","!","?">> >>,
      << <<"b","e","s","t"," ","r","o","b","o","t","s">>, <<"A","c","m","e"," ","p","r","i","c","i","n","g">>, <<"i","s"," ","i","t"," ","g","o","o","d","?">> >> }

CreateSimulatedQueryResults ==
    \E brand_name \in SimulatedBrands, queries \in SimulatedQueryLists :
      \E response_hash \in ResponseHashes :
        /\ op = "init"
        /\ op' = "_create_simulated_query_results"
        /\ args' = [brand_name |-> brand_name, queries |-> queries]
        /\ result' = Returned(create_simulated_query_results(brand_name, queries,
                                                            response_hash))
        /\ llm_requests' = <<>>
        /\ tasks' = <<>>
        /\ UNCHANGED engine_vars

NextAnalysis ==
    \/ AnalyzeBrandComprehensive
    \/ AnalyzeQueries
    \/ CalculateResponsePosition
    \/ CreateSimulatedQueryResults

SpecAnalysis == InitAnalysis /\ [][NextAnalysis]_vars

-----------------------------------------------------------------------------
(* SpecConstruct: AIOptimizationEngine.__init__ over the provider keys *)

\* config.get(key) and os.getenv(name): None, or a string
Missing == [present |-> FALSE]
Key(k) == [present |-> TRUE, value |-> k]

\* bool(key) for a key that is None or a string
Truthy(key) == key.present /\ key.value # <<>>

\* config.get('..._api_key') or os.getenv('..._API_KEY') (lines 150 to 152)
KeyOr(config_key, env_key) == IF Truthy(config_key) THEN config_key ELSE env_key

\* the sentinel of lines 155, 166 and 177
TestKey == <<"t", "e", "s", "t", "_", "k", "e", "y">>

\* the length a key must exceed at lines 155, 166 and 177
MinKeyLen == 10

\* the condition of lines 155, 166 and 177: the client is constructed
usable_key(key) ==
    Truthy(key) /\ key.value # TestKey /\ Len(key.value) > MinKeyLen

\* lines 155 to 189 for one provider: the client is set when the key passes
\* and the SDK constructor returns; the constructor's exception is caught
init_client(key, constructs) == usable_key(key) /\ constructs

Providers == {"anthropic", "openai", "perplexity"}

\* AIOptimizationEngine.__init__ for the keys of the configuration map, the
\* keys of the environment and the SDK constructors that return: the
\* instance's clients
engine_init(config_keys, env_keys, constructs) ==
    LET client(p) == init_client(KeyOr(config_keys[p], env_keys[p]), constructs[p])
    IN  [DegradedConfig EXCEPT !.anthropic_client = client("anthropic"),
                               !.openai_client = client("openai"),
                               !.perplexity_client = client("perplexity")]

\* the longest key of the pool
MaxKeyLen == 11

\* a key of n characters
KeyOfLen(n) == [i \in 1..n |-> "k"]

\* the keys of a configuration map: none, the empty string, the sentinel, and
\* keys of 9 to MaxKeyLen characters
ConfigKeys ==
    {Missing, Key(<<>>), Key(TestKey)} \cup {Key(KeyOfLen(n)) : n \in 9..MaxKeyLen}

\* the environment variables: unset, or a key of MaxKeyLen characters
EnvKeys == {Missing, Key(KeyOfLen(MaxKeyLen))}

\* no instance yet
InitConstruct ==
    /\ config = None /\ current_brand = NoAttr
    /\ visibility_query_cache = NoAttr /\ visibility_stats = NoAttr
    /\ op = "init" /\ args = <<>> /\ result = None
    /\ llm_requests = <<>>
    /\ tasks = <<>>

Construct ==
    \E config_keys \in [Providers -> ConfigKeys], env_keys \in [Providers -> EnvKeys] :
      \E constructs \in [Providers -> BOOLEAN] :
        /\ op = "init"
        /\ op' = "__init__"
        /\ args' = [config_keys |-> config_keys, env_keys |-> env_keys,
                    constructs |-> constructs]
        /\ config' = engine_init(config_keys, env_keys, constructs)
        /\ result' = Returned(None)
        /\ llm_requests' = <<>>
        /\ tasks' = <<>>
        /\ UNCHANGED <<current_brand, visibility_query_cache, visibility_stats>>

NextConstruct == Construct

SpecConstruct == InitConstruct /\ [][NextConstruct]_vars

-----------------------------------------------------------------------------
(* SpecConcurrent: two calculate_optimization_metrics_fast coroutines on one *)
(* engine instance and one event loop.  A coroutine runs without             *)
(* interruption from one suspending await to the next; the only awaits that  *)
(* suspend are the provider calls of _generate_query_response (line 2262),   *)
(* as _calculate_answer_coverage_safe, _calculate_machine_authority and      *)
(* _generate_visibility_test_queries contain no await.                       *)

\* a plausible slip: self.current_brand assigned after the helpers ran, which
\* then read what the previous call on the instance left
CurrentAtHelpers_stale(cb, brand_name) == cb

\* self.current_brand as the helpers of lines 459 to 474 read it: line 436
\* has assigned brand_name and no await in between suspends
CurrentAtHelpers(cb, brand_name) == Attr(brand_name)

\* lines 436 to 478 for a content sample of the caller, the helpers reading
\* current as self.current_brand
ContentAt(cfg, brand_name, current, content_sample) ==
    IF current = Attr(brand_name)
    THEN FastContent(cfg, brand_name, content_sample)
    ELSE FastFieldsOfChunks(cfg, brand_name, current,
                            ContentChunks(cfg, content_sample), FastQueries(brand_name))

TaskIds == {"A", "B"}

\* an instance with an embedding model, with and without the Anthropic client
ConcurrentConfigs == { WithModel, [WithModel EXCEPT !.anthropic_client = TRUE] }

ConcurrentBrands == {Acme, NovaRobotics}
ConcurrentContents == {OneParagraph, TwoParagraphs}

\* a coroutine that was created and has not run yet
NewTask(brand_name, content_sample, mentioned) ==
    [brand_name |-> brand_name, content_sample |-> content_sample,
     mentioned |-> mentioned, pc |-> "created", content |-> None,
     queries |-> <<>>, received |-> 0, value |-> None, path |-> None]

InitConcurrent ==
    /\ \E cfg \in ConcurrentConfigs :
           /\ EngineFresh(cfg)
           /\ tasks \in [TaskIds -> { NewTask(b, c, m) :
                                        b \in ConcurrentBrands, c \in ConcurrentContents,
                                        m \in MentionPatterns(cfg) }]
    /\ op = "init" /\ args = <<>> /\ result = None
    /\ llm_requests = <<>>

\* the coroutine t returns: the rest of _calculate_brand_visibility_potential
\* (lines 2128 to 2139) and lines 480 to 496, or the except branch
Finished(t, out) ==
    /\ tasks' = [tasks EXCEPT ![t].pc = "done", ![t].value = out.metrics,
                              ![t].path = out.path]
    /\ result' = [kind |-> "return", value |-> out.metrics, path |-> out.path]
    /\ visibility_query_cache' = out.cache
    /\ visibility_stats' = out.stats

\* the coroutine t runs from its start to its first provider call, or to its
\* end when it makes none
StartFast ==
    \E t \in TaskIds :
      \E content \in {ContentAt(config, tasks[t].brand_name,
                          CurrentAtHelpers(current_brand, tasks[t].brand_name),
                          tasks[t].content_sample)} :
        \E g \in {generate_visibility_test_queries(config, visibility_query_cache,
                      visibility_stats, tasks[t].brand_name, config.product_categories)} :
            /\ tasks[t].pc = "created"
            /\ op' = "calculate_optimization_metrics_fast"
            /\ args' = [task |-> t]
            /\ current_brand' = Attr(tasks[t].brand_name)
            /\ llm_requests' = <<>>
            /\ IF content.raised
               THEN Finished(t, FastOutcome(tasks[t].brand_name, visibility_query_cache,
                                   visibility_stats, content, None))
               ELSE IF g.queries = <<>> \/ ~ (config.anthropic_client \/ config.openai_client)
               THEN Finished(t, FastOutcome(tasks[t].brand_name, visibility_query_cache,
                                   visibility_stats, content,
                                   VisibilityOutcome(g, NoScore,
                                       calculate_visibility_potential_fallback(tasks[t].brand_name))))
               ELSE /\ tasks' = [tasks EXCEPT ![t].pc = "awaiting", ![t].content = content,
                                              ![t].queries = Take(g.queries, MaxTestedQueries)]
                    /\ result' = None
                    /\ visibility_query_cache' = g.cache
                    /\ visibility_stats' = g.stats
            /\ UNCHANGED config

\* a provider call of the coroutine t returns: the coroutine goes on to its
\* next call, or past its last one to its end
ProviderResponds ==
    \E t \in TaskIds :
        /\ tasks[t].pc = "awaiting"
        /\ op' = "_generate_query_response"
        /\ args' = [task |-> t]
        /\ llm_requests' = <<>>
        /\ IF tasks[t].received + 1 < Len(tasks[t].queries)
           THEN /\ tasks' = [tasks EXCEPT ![t].received = @ + 1]
                /\ result' = None
                /\ UNCHANGED <<visibility_query_cache, visibility_stats>>
           ELSE Finished(t, FastOutcome(tasks[t].brand_name, visibility_query_cache,
                               visibility_stats, tasks[t].content,
                               VisibilityOutcome(
                                   [cache |-> visibility_query_cache, stats |-> visibility_stats],
                                   test_brand_visibility_with_llm(config, tasks[t].brand_name,
                                       tasks[t].queries, tasks[t].mentioned),
                                   calculate_visibility_potential_fallback(tasks[t].brand_name))))
        /\ UNCHANGED <<config, current_brand>>

NextConcurrent == StartFast \/ ProviderResponds

SpecConcurrent == InitConcurrent /\ [][NextConcurrent]_vars

-----------------------------------------------------------------------------
(* SpecCache: the visibility query cache of one engine instance over calls *)
(* of _generate_visibility_test_queries and of its caller                  *)

\* s[::-1]
Reverse(s) == [i \in 1..Len(s) |-> s[Len(s) + 1 - i]]

\* the interpreter's set order keeps first occurrences, or reverses them
CacheConfigs == { DegradedConfig, [DegradedConfig EXCEPT !.hash_seed = 1] }

CacheBrands == {Acme, DataTech}

\* no category, and four categories in two orders
CacheCategoryLists ==
    { <<>>, Take(CatPool, 4), Reverse(Take(CatPool, 4)) }

InitCache ==
    /\ \E cfg \in CacheConfigs : EngineFresh(cfg)
    /\ op = "init" /\ args = <<>> /\ result = None
    /\ llm_requests = <<>>
    /\ tasks = <<>>

GenerateVisibilityTestQueries ==
    /\ CallsLeft
    /\ \E brand_name \in CacheBrands, product_categories \in CacheCategoryLists :
        \E g \in {generate_visibility_test_queries(config, visibility_query_cache,
                      visibility_stats, brand_name, product_categories)} :
            /\ op' = "_generate_visibility_test_queries"
            /\ args' = [brand_name |-> brand_name, product_categories |-> product_categories]
            /\ result' = Returned(g.queries)
            /\ visibility_query_cache' = g.cache
            /\ visibility_stats' = g.stats
            /\ llm_requests' = <<>>
            /\ tasks' = <<>>
            /\ UNCHANGED <<config, current_brand>>

CalculateBrandVisibilityPotential ==
    /\ CallsLeft
    /\ \E brand_name \in CacheBrands, product_categories \in CacheCategoryLists :
        \E v \in {calculate_brand_visibility_potential(config, visibility_query_cache,
                      visibility_stats, brand_name, product_categories, <<>>)} :
            /\ op' = "_calculate_brand_visibility_potential"
            /\ args' = [brand_name |-> brand_name, product_categories |-> product_categories]
            /\ result' = Returned(v.value)
            /\ visibility_query_cache' = v.cache
            /\ visibility_stats' = v.stats
            /\ llm_requests' = <<>>
            /\ tasks' = <<>>
            /\ UNCHANGED <<config, current_brand>>

NextCache == GenerateVisibilityTestQueries \/ CalculateBrandVisibilityPotential

SpecCache == InitCache /\ [][NextCache]_vars

-----------------------------------------------------------------------------
(* SpecProviders: the coroutines that call the providers, one step from one *)
(* provider call to the next.  A provider call returns, raises, or never    *)
(* completes; the engine passes no timeout to the calls (lines 1483, 1504,  *)
(* 1521, 2311, 2328) and does not wrap them in asyncio.wait_for, so a call  *)
(* ends only when the provider's client ends it.                            *)

\* the coroutine has not returned
Pending == [kind |-> "pending"]

\* the provider never responds: the awaited call does not complete
Hangs == [kind |-> "hang", lines |-> <<>>]

ProviderOrder == <<"perplexity", "anthropic", "openai">>

\* the client attribute of a provider
HasClient(cfg, p) ==
    CASE p = "perplexity" -> cfg.perplexity_client
      [] p = "anthropic" -> cfg.anthropic_client
      [] p = "openai" -> cfg.openai_client

\* how many queries _llm_generate_queries takes from a provider
TakeOf(p) ==
    CASE p = "perplexity" -> PerplexityTake
      [] p = "anthropic" -> AnthropicTake
      [] p = "openai" -> OpenAITake

RECURSIVE NextAwait(_, _, _)
\* the index of the provider whose call _llm_generate_queries awaits next,
\* from the i-th block on with all_queries collected: the first provider with
\* a client (for the second and third, with fewer than 25 queries collected);
\* beyond the last when no call is left
NextAwait(cfg, i, all_queries) ==
    IF i > Len(ProviderOrder) THEN i
    ELSE IF HasClient(cfg, ProviderOrder[i]) /\ (i = 1 \/ Len(all_queries) < EnoughQueries)
    THEN i
    ELSE NextAwait(cfg, i + 1, all_queries)

\* what each provider does when it is called
HangingOutcomes(cfg) ==
    { [perplexity |-> p, anthropic |-> a, openai |-> o] :
        p \in IF cfg.perplexity_client
              THEN {Hangs, [kind |-> "raise", lines |-> <<>>], [kind |-> "ok", lines |-> PlainCompletion]}
              ELSE {NotCalled},
        a \in IF cfg.anthropic_client
              THEN {Hangs, [kind |-> "raise", lines |-> <<>>], [kind |-> "ok", lines |-> LongCompletion]}
              ELSE {NotCalled},
        o \in IF cfg.openai_client
              THEN {Hangs, [kind |-> "ok", lines |-> PlainCompletion]}
              ELSE {NotCalled} }

\* the outcomes of the calls of _generate_query_response for n tested queries
HangingPatterns(n) == [1..n -> CallOutcomes \cup {"hangs"}]

\* the coroutines: _llm_generate_queries with what its providers do, and
\* _test_brand_visibility_with_llm with what its calls do
ProviderTasks(cfg) ==
    { [operation |-> "_llm_generate_queries", pc |-> "created", outcomes |-> o,
       at |-> 0, all_queries |-> <<>>] : o \in HangingOutcomes(cfg) }
    \cup
    { [operation |-> "_test_brand_visibility_with_llm", pc |-> "created",
       test_queries |-> TestQueries(Acme, Len(r)), responses |-> r, at |-> 0] :
         r \in HangingPatterns(1) \cup HangingPatterns(2) }

InitProviders ==
    /\ \E cfg \in QueryConfigs :
           /\ ~ cfg.llm_only_queries
           /\ EngineFresh(cfg)
           /\ tasks \in ProviderTasks(cfg)
    /\ op = "init" /\ args = <<>> /\ result = Pending
    /\ llm_requests = <<>>

\* _llm_generate_queries runs from its i-th provider block with all_queries
\* collected to its next provider call, or to its return statement
GenerationRunsFrom(i, all_queries) ==
    LET j == NextAwait(config, i, all_queries)
    IN  IF j <= Len(ProviderOrder)
        THEN /\ tasks' = [tasks EXCEPT !.pc = "awaiting", !.at = j,
                                       !.all_queries = all_queries]
             /\ llm_requests' = Append(llm_requests, Request(ProviderOrder[j]))
             /\ result' = Pending
        ELSE /\ tasks' = [tasks EXCEPT !.pc = "done", !.at = j,
                                       !.all_queries = all_queries]
             /\ llm_requests' = llm_requests
             /\ result' = Returned(Take(CleanQueries(all_queries, {}), LlmCap))

\* _test_brand_visibility_with_llm runs from its i-th tested query to its
\* next call of _generate_query_response, or to its return statement
TestingRunsFrom(i) ==
    IF tasks.test_queries = <<>> \/ ~ (config.anthropic_client \/ config.openai_client)
    THEN /\ tasks' = [tasks EXCEPT !.pc = "done"]
         /\ llm_requests' = llm_requests
         /\ result' = NoScore
    ELSE IF i <= Len(Take(tasks.test_queries, MaxTestedQueries))
    THEN /\ tasks' = [tasks EXCEPT !.pc = "awaiting", !.at = i]
         /\ llm_requests' = Append(llm_requests,
                Request(IF config.anthropic_client THEN "anthropic" ELSE "openai"))
         /\ result' = Pending
    ELSE /\ tasks' = [tasks EXCEPT !.pc = "done", !.at = i]
         /\ llm_requests' = llm_requests
         /\ result' = test_brand_visibility_with_llm(config, Acme, tasks.test_queries,
                          MentionsOf(tasks.responses))

\* the event loop starts the coroutine
StartCoroutine ==
    /\ tasks.pc = "created"
    /\ op' = tasks.operation
    /\ args' = <<>>
    /\ IF tasks.operation = "_llm_generate_queries"
       THEN GenerationRunsFrom(1, <<>>)
       ELSE TestingRunsFrom(1)
    /\ UNCHANGED engine_vars

\* the provider call _llm_generate_queries awaits returns or raises and the
\* coroutine goes on; a call that hangs never does, and nothing else ends
\* the await
GenerationCallEnds ==
    /\ tasks.pc = "awaiting"
    /\ tasks.operation = "_llm_generate_queries"
    /\ tasks.outcomes[ProviderOrder[tasks.at]].kind # "hang"
    /\ op' = "provider call ends"
    /\ args' = <<>>
    /\ \E all_queries \in
           { IF tasks.outcomes[ProviderOrder[tasks.at]].kind = "ok"
             THEN tasks.all_queries
                      \o Take(ProviderQueries(tasks.outcomes[ProviderOrder[tasks.at]].lines),
                              TakeOf(ProviderOrder[tasks.at]))
             ELSE tasks.all_queries } :
           GenerationRunsFrom(tasks.at + 1, all_queries)
    /\ UNCHANGED engine_vars

\* the call of _generate_query_response that _test_brand_visibility_with_llm
\* awaits returns (a provider error is caught and "" returned) and the
\* coroutine goes on; a provider call that hangs never does
TestingCallEnds ==
    /\ tasks.pc = "awaiting"
    /\ tasks.operation = "_test_brand_visibility_with_llm"
    /\ tasks.responses[tasks.at] # "hangs"
    /\ op' = "_generate_query_response returns"
    /\ args' = <<>>
    /\ TestingRunsFrom(tasks.at + 1)
    /\ UNCHANGED engine_vars

NextProviders == StartCoroutine \/ GenerationCallEnds \/ TestingCallEnds

\* the event loop runs a coroutine that is ready, and a provider call that
\* returns or raises does so eventually
SpecProviders ==
    InitProviders /\ [][NextProviders]_vars
        /\ WF_vars(StartCoroutine) /\ WF_vars(GenerationCallEnds)
        /\ WF_vars(TestingCallEnds)

-----------------------------------------------------------------------------
(* SpecRecommend: _generate_fallback_priority_recommendations over metrics  *)
(* on and around its thresholds                                             *)

CriticalRecommendations(brand_name) ==
    << <<"U","r","g","e","n","t",":"," ">> \o brand_name \o <<" ","h","a","s"," ","c","r","i","t","i","c","a","l","l","y"," ","l","o","w"," ","A","I"," ","v","i","s","i","b","i","l","i","t","y">>,
       <<"I","m","m","e","d","i","a","t","e"," ","b","r","a","n","d"," ","a","u","d","i","t"," ","a","n","d"," ","c","o","m","p","e","t","i","t","i","v","e"," ","a","n","a","l","y","s","i","s"," ","r","e","q","u","i","r","e","d">>,
       <<"E","m","e","r","g","e","n","c","y"," ","c","o","n","t","e","n","t"," ","c","r","e","a","t","i","o","n"," ","f","o","c","u","s","i","n","g"," ","o","n"," ","b","r","a","n","d"," ","m","e","n","t","i","o","n","s">> >>

HighRecommendations(brand_name) ==
    << <<"I","m","p","r","o","v","e"," ">> \o brand_name \o <<" ","a","t","t","r","i","b","u","t","i","o","n"," ","r","a","t","e"," ","t","h","r","o","u","g","h"," ","t","a","r","g","e","t","e","d"," ","c","o","n","t","e","n","t">>,
       <<"C","r","e","a","t","e"," ","c","o","m","p","r","e","h","e","n","s","i","v","e"," ","F","A","Q"," ","a","n","d"," ","k","n","o","w","l","e","d","g","e"," ","b","a","s","e">>,
       <<"O","p","t","i","m","i","z","e"," ","c","o","n","t","e","n","t"," ","f","o","r"," ","A","I"," ","m","o","d","e","l"," ","t","r","a","i","n","i","n","g"," ","d","a","t","a">> >>

MediumRecommendations ==
    << <<"E","n","h","a","n","c","e"," ","c","o","n","t","e","n","t"," ","q","u","a","l","i","t","y"," ","a","n","d"," ","s","e","m","a","n","t","i","c"," ","d","e","n","s","i","t","y">>,
       <<"I","m","p","l","e","m","e","n","t"," ","s","t","r","u","c","t","u","r","e","d"," ","d","a","t","a"," ","a","n","d"," ","s","c","h","e","m","a"," ","m","a","r","k","u","p">>,
       <<"D","e","v","e","l","o","p"," ","t","o","p","i","c"," ","c","l","u","s","t","e","r","s"," ","f","o","r"," ","b","e","t","t","e","r"," ","c","o","v","e","r","a","g","e">> >>

LowRecommendations ==
    << <<"M","o","n","i","t","o","r"," ","A","I"," ","c","i","t","a","t","i","o","n"," ","o","p","p","o","r","t","u","n","i","t","i","e","s">>,
       <<"T","r","a","c","k"," ","c","o","m","p","e","t","i","t","o","r"," ","A","I"," ","v","i","s","i","b","i","l","i","t","y"," ","p","e","r","f","o","r","m","a","n","c","e">>,
       <<"I","m","p","l","e","m","e","n","t"," ","a","d","v","a","n","c","e","d"," ","a","n","a","l","y","t","i","c","s"," ","a","n","d"," ","r","e","p","o","r","t","i","n","g">> >>

\* a plausible slip: the thresholds taken inclusive (<= for <)
generate_fallback_priority_recommendations_inclusive(metrics, brand_name) ==
    [critical |-> IF \/ 10 * metrics.attribution_rate <= 3 * Scale
                     \/ 10 * metrics.brand_visibility_potential <= 3 * Scale
                  THEN CriticalRecommendations(brand_name) ELSE <<>>,
     high |-> IF 10 * metrics.attribution_rate <= 6 * Scale
              THEN HighRecommendations(brand_name) ELSE <<>>,
     medium |-> IF 10 * metrics.content_quality_score <= 7 * Scale
                THEN MediumRecommendations ELSE <<>>,
     low |-> LowRecommendations]

\* the dict of the four buckets: each rule extends its bucket when its
\* threshold test holds, the low bucket is always extended
generate_fallback_priority_recommendations(metrics, brand_name) ==
    [critical |-> IF \/ 10 * metrics.attribution_rate < 3 * Scale
                     \/ 10 * metrics.brand_visibility_potential < 3 * Scale
                  THEN CriticalRecommendations(brand_name) ELSE <<>>,
     high |-> IF 10 * metrics.attribution_rate < 6 * Scale
              THEN HighRecommendations(brand_name) ELSE <<>>,
     medium |-> IF 10 * metrics.content_quality_score < 7 * Scale
                THEN MediumRecommendations ELSE <<>>,
     low |-> LowRecommendations]

\* metric values on, just below and just above the thresholds 0.3, 0.6, 0.7
RateGrid ==
    { 0, (3 * Scale) \div 10 - 1, (3 * Scale) \div 10, (3 * Scale) \div 10 + 1,
      (6 * Scale) \div 10 - 1, (6 * Scale) \div 10,
      (7 * Scale) \div 10 - 1, (7 * Scale) \div 10, Scale }

RecommendMetrics ==
    { [NewMetrics EXCEPT !.attribution_rate = a, !.brand_visibility_potential = v,
                         !.content_quality_score = q] :
        a \in RateGrid, v \in RateGrid, q \in RateGrid }

RecommendBrands == {Acme, NovaRobotics}

InitRecommend ==
    /\ EngineFresh(DegradedConfig)
    /\ op = "init" /\ args = <<>> /\ result = None
    /\ llm_requests = <<>>
    /\ tasks = <<>>

GenerateFallbackPriorityRecommendations ==
    \E metrics \in RecommendMetrics, brand_name \in RecommendBrands :
        /\ op = "init"
        /\ op' = "_generate_fallback_priority_recommendations"
        /\ args' = [metrics |-> metrics, brand_name |-> brand_name]
        /\ result' = generate_fallback_priority_recommendations(metrics, brand_name)
        /\ llm_requests' = <<>>
        /\ tasks' = <<>>
        /\ UNCHANGED engine_vars

NextRecommend == GenerateFallbackPriorityRecommendations

SpecRecommend == InitRecommend /\ [][NextRecommend]_vars

-----------------------------------------------------------------------------
(* SpecChunks: _create_content_chunks_from_sample over texts put together   *)
(* from paragraphs around the length limit, with an embedding model that    *)
(* is absent, works, or raises                                              *)

\* 19 and 20 characters
Nineteen == <<"A","c","m","e"," ","b","u","i","l","d","s"," ","r","o","b","o","t","s",".">>
Twenty == <<"A","c","m","e"," ","s","h","i","p","s"," ","r","o","b","o","t","s",".",".",".">>
LongParagraph == <<"W","h","y"," ","t","e","a","m","s"," ","c","h","o","o","s","e"," ","A","c","m","e",":"," ","s","p","e","e","d"," ","-"," ","a","n","d"," ","s","u","p","p","o","r","t",".">>

\* the paragraphs a text is put together from
ChunkParagraphs ==
    { <<>>, <<" ", "\t">>, Nineteen, Twenty, LongParagraph,
      <<" ", " ">> \o Nineteen \o <<" ">>,
      <<"\n", " ">> \o Twenty \o <<" ", "\n">> }

MaxParagraphs == 3

RECURSIVE JoinParagraphs(_)
\* '\n\n'.join(paragraphs)
JoinParagraphs(paragraphs) ==
    IF paragraphs = <<>> THEN <<>>
    ELSE IF Len(paragraphs) = 1 THEN Head(paragraphs)
    ELSE Head(paragraphs) \o <<"\n", "\n">> \o JoinParagraphs(Tail(paragraphs))

\* no model, a model that encodes, one whose encode raises on one paragraph,
\* and one whose encode always raises
ChunkConfigs ==
    { DegradedConfig, WithModel,
      [WithModel EXCEPT !.model.raises_on = {Twenty}],
      [WithModel EXCEPT !.model.encodes = FALSE] }

InitChunks ==
    /\ \E cfg \in ChunkConfigs : EngineFresh(cfg)
    /\ op = "init" /\ args = <<>> /\ result = None
    /\ llm_requests = <<>>
    /\ tasks = <<>>

CreateContentChunksFromSample ==
    \E n \in 0..MaxParagraphs :
      \E paragraphs \in [1..n -> ChunkParagraphs] :
        /\ op = "init"
        /\ op' = "_create_content_chunks_from_sample"
        /\ args' = [paragraphs |-> paragraphs,
                    content_sample |-> JoinParagraphs(paragraphs)]
        /\ result' = create_content_chunks_from_sample(config, JoinParagraphs(paragraphs))
        /\ llm_requests' = <<>>
        /\ tasks' = <<>>
        /\ UNCHANGED engine_vars

NextChunks == CreateContentChunksFromSample

SpecChunks == InitChunks /\ [][NextChunks]_vars

(* CLAIMS *)
-----------------------------------------------------------------------------
\* the weight table as the specification documents it (section 4.5), hundredths
DocumentedWeights ==
    [attribution_rate |-> 15, ai_citation_count |-> 10, embedding_relevance_score |-> 12,
     chunk_retrieval_frequency |-> 10, semantic_density_score |-> 10,
     llm_answer_coverage |-> 12, zero_click_surface_presence |-> 8,
     machine_validated_authority |-> 13, vector_index_presence_ratio |-> 4,
     retrieval_confidence_score |-> 3, rrf_rank_contribution |-> 2,
     ai_model_crawl_success_rate |-> 1]

RECURSIVE SumOver(_, _, _)
SumOver(S, m, w) ==
    IF S = {} THEN 0
    ELSE LET f == CHOOSE x \in S : TRUE
         IN  m[f] * w[f] + SumOver(S \ {f}, m, w)

\* the documented weighted sum: the count as min(1, count/40), then the weights
DocumentedSum(m) ==
    SumOver(DOMAIN DocumentedWeights,
            [m EXCEPT !.ai_citation_count = Min(Scale, 250 * m.ai_citation_count)],
            DocumentedWeights)

\* C4: get_overall_score() is the documented weighted sum of the 12 core
\* metrics (citation count normalized to min(1, count/40)) clamped to [0,1],
\* so it lies in [0,1] whatever the field values are.
C4_OverallScoreIsClampedWeightedSum ==
    op = "get_overall_score" =>
        /\ result = Clamp(0, DocumentedSum(args), ScoreScale)
        /\ result >= 0 /\ result <= ScoreScale

\* C4 witness: a score was computed from out-of-range fields and clamped at 1
C4_Witness ==
    /\ op = "get_overall_score"
    /\ \E f \in CoreFloatFields : args[f] > Scale
    /\ DocumentedSum(args) > ScoreScale
    /\ result = ScoreScale

AllCoreAt(m, level, count) ==
    /\ \A f \in CoreFloatFields : m[f] = level
    /\ m.ai_citation_count = count

\* C5: the twelve weights sum to exactly 1.0: with every core float field at
\* 1.0 and ai_citation_count = 40 the weighted sum is 1.0 before any clamping
\* and get_overall_score() is 1.0; with every core field at 0 it is 0.
C5_WeightsSumToOne ==
    op = "get_overall_score" =>
        /\ AllCoreAt(args, Scale, CitationTarget) =>
               (result = ScoreScale /\ WeightedSum(args) = ScoreScale)
        /\ AllCoreAt(args, 0, 0) => result = 0

\* C5 witness: the all-maximum object was scored
C5_Witness ==
    /\ op = "get_overall_score"
    /\ AllCoreAt(args, Scale, CitationTarget)
    /\ result = ScoreScale

\* gaps between two scores, all larger than the maximum jitter 0.003
ScoreGaps == {3001, 3100, 4000, 5000, 10000, 49000, 50000, 51000, 100000, 400000, 999000}

\* C6: grading is monotonic: for scores s1 < s2 with s2 - s1 > 0.003, and
\* whatever brand names seed the two jitters, the grade of s1 is never a
\* strictly better letter than the grade of s2.
C6_GradingMonotonic ==
    op = "_get_consistent_grade" =>
        \A b2 \in GradeBrands, d \in ScoreGaps :
            args.overall_score + d <= ScoreScale =>
                GradeRank(result) <=
                    GradeRank(get_consistent_grade(b2, args.overall_score + d))

\* C6 witness: the jitter lifted s1 over a threshold, and a score more than
\* 0.003 above it, graded with no jitter, gets the same letter
C6_Witness ==
    /\ op = "_get_consistent_grade"
    /\ GradeJitter(args.brand_name) = 2000
    /\ result # GradeOfScore(args.overall_score)
    /\ \E b2 \in GradeBrands :
          /\ GradeJitter(b2) = 0
          /\ get_consistent_grade(b2, args.overall_score + 3001) = result

\* the documented thresholds, F below the first: D, C-, C, C+, B-, B, B+, A-, A, A+
DocumentedThresholds ==
    <<400000, 500000, 550000, 600000, 650000, 700000, 750000, 800000, 850000, 900000>>

\* the rank (1 = F .. 11 = A+) the documented thresholds give a score
DocumentedRank(score) ==
    1 + Cardinality({i \in 1..Len(DocumentedThresholds) : score >= DocumentedThresholds[i]})

\* C7: the brand-seeded jitter is at most 0.003, and the jittered grade is the
\* letter the fixed thresholds give the un-jittered score or the adjacent one.
C7_JitterWithinOneStep ==
    op = "_get_consistent_grade" =>
        /\ GradeJitter(args.brand_name) >= 0 - 3000
        /\ GradeJitter(args.brand_name) <= 3000
        /\ GradeRank(result) >= 1
        /\ GradeRank(result) - DocumentedRank(args.overall_score) \in {0 - 1, 0, 1}

\* C7 witness: a jittered grade one step above the un-jittered letter
C7_Witness ==
    /\ op = "_get_consistent_grade"
    /\ GradeJitter(args.brand_name) > 0
    /\ GradeRank(result) = DocumentedRank(args.overall_score) + 1

-----------------------------------------------------------------------------
(* The metric computations and the analysis *)

NoProviders(cfg) ==
    ~ cfg.anthropic_client /\ ~ cfg.openai_client /\ ~ cfg.perplexity_client

FastReturned == op = "calculate_optimization_metrics_fast" /\ result.kind = "return"

\* C1: analyze_brand_comprehensive on an engine with no provider configured
\* completes without raising and returns a complete report: analysis_method
\* is "simulated", semantic_queries is non-empty, and all_queries has exactly
\* tested_queries entries, each with query, mentioned and position.
C1_AnalyzeReturnsCompleteReport ==
    (op = "analyze_brand_comprehensive" /\ NoProviders(config)) =>
        /\ result.kind = "return"
        /\ result.value.metadata.analysis_method = "simulated"
        /\ result.value.semantic_queries # <<>>
        /\ Len(result.value.query_analysis.all_queries)
               = result.value.query_analysis.tested_queries
        /\ \A i \in 1..Len(result.value.query_analysis.all_queries) :
               {"query", "mentioned", "position"}
                   \subseteq DOMAIN result.value.query_analysis.all_queries[i]

\* C2: every field of the metrics that calculate_optimization_metrics_fast
\* returns lies in its documented range, on the data-driven path and on the
\* fallback path: the core and derived float fields in [0,1], the citation
\* count an integer >= 0.
C2_FastMetricsInRange ==
    FastReturned =>
        /\ \A f \in CoreFloatFields \cup DerivedFields :
               0 <= result.value[f] /\ result.value[f] <= Scale
        /\ result.value.ai_citation_count \in Nat

\* what calculate_optimization_metrics_fast(brand_name) returns on a fresh
\* instance with configuration cfg
FreshFastMetrics(cfg, brand_name) ==
    calculate_optimization_metrics_fast(cfg, NoAttr, NoAttr, NoAttr, brand_name,
                                        NoContent, <<>>).metrics

\* C3: with no content sample and no provider configured,
\* calculate_optimization_metrics_fast(name) returns the metrics it returns
\* on a fresh instance, whatever calls the instance has served before (so
\* that any two such calls for the same name return identical metrics).
C3_FastIsDeterministic ==
    (FastReturned /\ args.content_sample = NoContent /\ NoProviders(config)) =>
        result.value = FreshFastMetrics(config, args.brand_name)

\* a data-driven call with no content sample on an instance that has served
\* calls for two brands and has already answered from its query cache
C3_Witness ==
    /\ FastReturned /\ args.content_sample = NoContent /\ NoProviders(config)
    /\ result.path = "data"
    /\ visibility_query_cache.hasattr
    /\ Cardinality(DOMAIN visibility_query_cache.value) >= 2
    /\ visibility_stats.hasattr
    /\ visibility_stats.value.cache_hits >= 1

\* C8: in the metrics returned by calculate_optimization_metrics_fast and by
\* _calculate_optimization_metrics (error paths included) the stored
\* overall_score equals get_overall_score() of the object, and the stored
\* performance_grade equals get_performance_grade() of the object and is one
\* of the 11 symbols A+ .. F.
C8_SummaryFieldsAreDerived ==
    (op \in {"calculate_optimization_metrics_fast", "_calculate_optimization_metrics"}
        /\ result.kind = "return") =>
        /\ result.value.overall_score = get_overall_score(result.value)
        /\ result.value.performance_grade = get_performance_grade(result.value)
        /\ result.value.performance_grade \in Range(Grades)

-----------------------------------------------------------------------------
(* The generated queries *)

\* the queries a call of _generate_semantic_queries returned
ReturnedQueries == result.value

QueriesReturned == op = "_generate_semantic_queries" /\ result.kind = "return"

\* C9: whenever _generate_semantic_queries returns, it returns at least 1 and
\* at most 60 queries, each a non-empty string, and no string occurs twice.
C9_QueryListBounds ==
    QueriesReturned =>
        /\ Len(ReturnedQueries) >= 1
        /\ Len(ReturnedQueries) <= 60
        /\ \A i \in 1..Len(ReturnedQueries) : ReturnedQueries[i] # <<>>
        /\ \A i, j \in 1..Len(ReturnedQueries) :
               ReturnedQueries[i] = ReturnedQueries[j] => i = j

\* the heuristic path with seven categories, hence 64 distinct templates: the
\* cap cuts the returned list to exactly 60 entries
C9_Witness ==
    /\ QueriesReturned
    /\ Len(args.product_categories) = MaxCats
    /\ Len(ReturnedQueries) = 60
    /\ ~ config.anthropic_client /\ ~ config.openai_client

\* the key under which the documented de-duplication compares two queries
Folded(q) == Lower(Strip(q))

\* C10: no two returned queries are equal ignoring surrounding whitespace and
\* letter case, on the LLM path and on the heuristic path.
C10_NoFoldedDuplicates ==
    QueriesReturned =>
        \A i, j \in 1..Len(ReturnedQueries) :
            Folded(ReturnedQueries[i]) = Folded(ReturnedQueries[j]) => i = j

\* _generate_semantic_queries returned the heuristic query set: hybrid mode,
\* and no provider to ask or no query from the providers asked
HeuristicPath ==
    /\ QueriesReturned
    /\ ~ config.llm_only_queries
    /\ (config.anthropic_client \/ config.openai_client) =>
           llm_generate_queries(config, args.outcomes) = <<>>

\* C11 as stated: in heuristic generation every returned query contains the
\* brand name, exactly as the caller supplied it, as a substring.
C11_QueriesContainSuppliedBrand ==
    HeuristicPath =>
        \A i \in 1..Len(ReturnedQueries) :
            Contains(ReturnedQueries[i], args.brand_name)

\* C11 amended: in heuristic generation every returned query contains, as a
\* substring, the supplied brand name without its leading and trailing
\* whitespace (the queries are stripped before they are returned).
C11_QueriesContainStrippedBrand ==
    HeuristicPath =>
        \A i \in 1..Len(ReturnedQueries) :
            Contains(ReturnedQueries[i], Strip(args.brand_name))

\* heuristic generation for a brand supplied with surrounding blanks, a query
\* of which begins with the brand and has lost the leading blank
C11_Witness ==
    /\ HeuristicPath
    /\ args.brand_name = PaddedAcme
    /\ \E i \in 1..Len(ReturnedQueries) :
           /\ StartsWith(ReturnedQueries[i], Acme)
           /\ ~ Contains(ReturnedQueries[i], PaddedAcme)

\* _generate_semantic_queries ran in hybrid mode (llm_only_queries false)
HybridGeneration == op = "_generate_semantic_queries" /\ ~ config.llm_only_queries

\* _generate_semantic_queries ran in llm_only mode
StrictGeneration == op = "_generate_semantic_queries" /\ config.llm_only_queries

\* a chat-completion provider is configured
AnyProvider(cfg) == cfg.anthropic_client \/ cfg.openai_client \/ cfg.perplexity_client

\* what the LLM attempt of the last call yielded (nothing when no request
\* was sent)
LlmYield ==
    IF llm_requests = <<>> THEN <<>>
    ELSE llm_generate_queries(config, args.outcomes)

\* the heuristic query set for the arguments of the last call
HeuristicSet ==
    UniqueQueries(HeuristicQueries(args.brand_name, args.product_categories,
        determine_industry_context(args.brand_name, args.product_categories)))

\* C12: in hybrid mode query generation never raises; the LLM is attempted
\* when a provider is configured; when the attempt yields no query (it raised
\* or came back empty) or no provider is configured the result is the
\* heuristic query set; when it yields a query the result holds LLM queries
\* only.
C12_HybridFallsBackAndNeverRaises ==
    HybridGeneration =>
        /\ result.kind = "return"
        /\ AnyProvider(config) => llm_requests # <<>>
        /\ LlmYield = <<>> => ReturnedQueries = HeuristicSet
        /\ LlmYield # <<>> =>
               \A i \in 1..Len(ReturnedQueries) :
                   \E j \in 1..Len(LlmYield) : ReturnedQueries[i] = Strip(LlmYield[j])

\* the error of line 1380 and the error of line 1383
NoClientError == Raised("RuntimeError: requires configured client")
NoQueriesError == Raised("RuntimeError: returned no queries")

\* C13: in llm_only mode query generation proceeds to the LLM whenever
\* Anthropic, OpenAI or Perplexity is configured, and raises the explicit
\* configuration error, with no provider call and no heuristic queries,
\* exactly when none of them is configured.
C13_StrictRaisesIffNoProvider ==
    StrictGeneration =>
        /\ AnyProvider(config) => llm_requests # <<>>
        /\ (result = NoClientError) <=> ~ AnyProvider(config)
        /\ result = NoClientError => llm_requests = <<>>

\* C14: in llm_only mode the generator fails with the explicit error only
\* after three empty attempts: the first, a retry with a stricter instruction
\* and a retry that forces the alternate (JSON) output format.
C14_FailsOnlyAfterThreeAttempts ==
    (StrictGeneration /\ result = NoQueriesError) =>
        /\ \E i \in 1..Len(llm_requests) : llm_requests[i].prompt = "standard"
        /\ \E i \in 1..Len(llm_requests) : llm_requests[i].prompt = "stricter"
        /\ \E i \in 1..Len(llm_requests) : llm_requests[i].prompt = "json"

(* The query analysis *)

\* analyze or analyze_queries ran with llm_only_queries set and its query
\* generation raised: no provider was configured, or the LLM gave no query
StrictAnalysisWithoutQueries ==
    /\ op \in {"analyze_brand_comprehensive", "analyze_queries"}
    /\ config.llm_only_queries
    /\ SemanticQueries(config, args.brand_name, args.product_categories,
                       args.outcomes).kind = "raise"

\* C15: with llm_only_queries set and no provider configured (or no query from
\* the LLM), analyze and analyze_queries raise to their caller; neither
\* returns a fallback, simulated or minimal result.
C15_StrictFailureSurfaces ==
    StrictAnalysisWithoutQueries => result.kind = "raise"

\* a position of the 1 to 10 scale
InScale(p) == p >= Scale /\ p <= 10 * Scale

\* a per-response position: None exactly when the brand is not mentioned, and
\* on the scale otherwise
PositionIsSound(mentioned, pos) ==
    /\ pos.is_none <=> ~ mentioned
    /\ ~ pos.is_none => InScale(pos.value)

TestedWithoutProvider ==
    IF op = "_create_simulated_query_results" THEN Returned(args.queries)
    ELSE IF op = "analyze_queries" /\ NoProviders(config)
    THEN SemanticQueries(config, args.brand_name, args.product_categories, args.outcomes)
    ELSE Raised("not tested")

\* the analysis holds one record per query, in the order of the queries, and
\* its counts and positions agree with the records
OneRecordPerQuery(queries, analysis) ==
    /\ analysis.tested_queries = Len(analysis.all_queries)
    /\ Len(analysis.all_queries) = Len(queries)
    /\ \A i \in 1..Len(queries) : analysis.all_queries[i].query = queries[i]
    /\ analysis.brand_mentions =
           Cardinality({i \in 1..Len(analysis.all_queries) : analysis.all_queries[i].mentioned})
    /\ \A i \in 1..Len(analysis.all_queries) :
           analysis.all_queries[i].position.is_none <=> ~ analysis.all_queries[i].mentioned

MentionDetected == op = "_detect_brand_mention" /\ result = TRUE

\* C16: for a multi-word brand, a text with only the brand's leading word,
\* bare or with a possessive 's, is detected as a mention ("Acme Corp" in
\* "I love Acme's service", "Apple Inc" in "Apple is innovative"), and a text
\* with none of the brand's words is not.
C16_LeadingWordIsAMention ==
    (op = "_detect_brand_mention" /\ Len(SplitWords(args.brand_name)) > 1) =>
        /\ args.response_text \in LeadingWordTexts(args.brand_name) => result = TRUE
        /\ args.response_text \in UnrelatedTexts => result = FALSE

\* C17: a text that holds the words of the brand joined by a blank, joined by
\* a hyphen or written together is detected as a mention, whether the brand
\* separates its words by blanks or by hyphens, in any letter case of brand
\* and text.
C17_SeparatorAndCaseInsensitive ==
    (op = "_detect_brand_mention" /\ args.response_text \in JoinedTexts(args.brand_name)) =>
        result = TRUE

(* Visibility testing *)

\* the provider calls of the last visibility test that did not fail, and
\* those of them whose answer mentions the brand
AnsweredCalls == Len(SelectSeq(args.responses, LAMBDA r : r # "fails"))
MentioningCalls == Len(SelectSeq(args.responses, LAMBDA r : r = "mentions"))

\* the score for a mention rate of mentions out of total
ScoreOfRate(brand_name, mentions, total) ==
    Clamp(1000,
          1000 + Round(mentions * 800
                         * LlmVisibilityMultiplier(determine_industry_context(brand_name, <<>>)),
                       total),
          9000)

\* C20: a provider call that fails while the visibility queries are tested is
\* left out of the aggregates: the mention rate is the number of mentions over
\* the number of calls that did not fail, and the test returns (nothing is
\* re-raised).
C20_FailedCallsLeftOutOfRate ==
    (op = "_test_brand_visibility_with_llm" /\ args.test_queries # <<>>
        /\ (config.anthropic_client \/ config.openai_client) /\ AnsweredCalls > 0) =>
        result = Val(ScoreOfRate(args.brand_name, MentioningCalls, AnsweredCalls))

-----------------------------------------------------------------------------
(* Fallbacks of single metrics *)

\* a call of calculate_optimization_metrics_fast with a content sample of the
\* caller has returned
FastReturnedOnContent == FastReturned /\ args.content_sample # NoContent

\* C21: when the computation of one metric meets a degenerate input or fails,
\* only that metric is replaced by its fallback: chunk_retrieval_frequency,
\* the first metric computed from the chunks of the content sample (line 459,
\* a function of the chunks that never raises), keeps that value in the
\* metrics calculate_optimization_metrics_fast returns, whatever happens to
\* the metrics computed after it.
C21_ComputedMetricKeepsDataValue ==
    FastReturnedOnContent =>
        result.value.chunk_retrieval_frequency
            = calculate_chunk_retrieval_frequency(ContentChunks(config, args.content_sample))

-----------------------------------------------------------------------------
(* Construction *)

\* the key __init__ reads for provider p: the configuration map's, else the
\* environment's
SuppliedKey(p) == KeyOr(args.config_keys[p], args.env_keys[p])

\* the client attribute of provider p on the constructed instance
ClientOf(p) ==
    CASE p = "anthropic" -> config.anthropic_client
      [] p = "openai" -> config.openai_client
      [] p = "perplexity" -> config.perplexity_client

\* the key is missing, is the sentinel, or is shorter than 10 characters
DocumentedAbsent(key) ==
    \/ ~ key.present
    \/ key.value = TestKey
    \/ Len(key.value) < 10

\* C22: engine construction never raises because of a provider key, and a
\* provider whose SDK constructor returns is absent (its client is None)
\* exactly when its key is missing, equals the sentinel "test_key", or is
\* shorter than 10 characters.
C22_AbsentIffKeyMissingSentinelOrShort ==
    op = "__init__" =>
        /\ result.kind = "return"
        /\ \A p \in Providers :
               args.constructs[p] =>
                   (~ ClientOf(p) <=> DocumentedAbsent(SuppliedKey(p)))

-----------------------------------------------------------------------------
(* Concurrent analyses *)

\* what the call of the coroutine t returns when it runs alone on a fresh
\* instance of the same configuration, the provider answering as it does to t
AloneMetrics(t) ==
    calculate_optimization_metrics_fast(config, NoAttr, NoAttr, NoAttr,
        tasks[t].brand_name, tasks[t].content_sample, tasks[t].mentioned).metrics

\* the coroutine t has returned and the other coroutine is for another brand
ReturnedBesideOtherBrand(t) ==
    /\ DOMAIN tasks = TaskIds
    /\ tasks[t].pc = "done"
    /\ \A u \in TaskIds \ {t} : tasks[u].brand_name # tasks[t].brand_name

\* C23: the metrics calculate_optimization_metrics_fast returns for a brand
\* are those it returns when it runs alone, whether or not a call for a
\* different brand runs interleaved with it on the same engine instance.
C23_ConcurrentCallsDoNotInterfere ==
    \A t \in TaskIds : ReturnedBesideOtherBrand(t) => tasks[t].value = AloneMetrics(t)

\* a data-driven call has returned after the call for the other brand started
\* and returned while it was waiting for the provider
C23_Witness ==
    /\ DOMAIN tasks = TaskIds
    /\ ReturnedBesideOtherBrand("A")
    /\ tasks["A"].path = "data" /\ tasks["B"].pc = "done"
    /\ tasks["A"].received > 0
    /\ current_brand = Attr(tasks["B"].brand_name)
    /\ visibility_stats.value.total_calculations = 2

-----------------------------------------------------------------------------
(* The visibility query cache *)

\* the cache as a function: empty until the attribute is first assigned
CacheEntries(cache) == IF cache.hasattr THEN cache.value ELSE << >>

\* a brand with a list of categories in any order: what an earlier call with
\* that brand and those categories is known by
RequestOf(brand_name, product_categories) ==
    [brand_name |-> brand_name,
     categories |-> [c \in Range(product_categories) |->
                        Cardinality({i \in DOMAIN product_categories :
                                         product_categories[i] = c})]]

\* the step is a call of _generate_visibility_test_queries: it returns 1 to
\* 15 queries; after it the cache holds the returned list for the request;
\* when the cache held a list for the request (an earlier call was made with
\* the brand and the categories), the call returns that list and one more
\* cache hit is recorded
GenerateStepIsSound ==
    op' = "_generate_visibility_test_queries" =>
        LET request == RequestOf(args'.brand_name, args'.product_categories)
            before == CacheEntries(visibility_query_cache)
            after == CacheEntries(visibility_query_cache')
        IN  /\ Len(result'.value) \in 1..15
            /\ request \in DOMAIN after /\ after[request] = result'.value
            /\ request \in DOMAIN before =>
                   /\ result'.value = before[request]
                   /\ get_visibility_performance_stats(visibility_stats').cache_hits
                          = get_visibility_performance_stats(visibility_stats).cache_hits + 1

\* no step removes or changes an entry of the cache
EntriesKept ==
    \A request \in DOMAIN CacheEntries(visibility_query_cache) :
        /\ request \in DOMAIN CacheEntries(visibility_query_cache')
        /\ CacheEntries(visibility_query_cache')[request]
               = CacheEntries(visibility_query_cache)[request]

\* C24: once _generate_visibility_test_queries has been called for a brand
\* and categories, every later call on the instance with that brand and those
\* categories (in any order) returns the identical list from the cache and is
\* recorded as a cache hit; no later call removes or overwrites a cache
\* entry; every returned list has between 1 and 15 queries.
C24_CacheServesFirstListForever ==
    [][GenerateStepIsSound /\ EntriesKept]_vars

\* a call with four categories was answered from the cache with the 15
\* queries stored by a call that gave the categories in the other order,
\* the cache holding entries of both brands
C24_Witness ==
    /\ op = "_generate_visibility_test_queries"
    /\ args.product_categories = Reverse(Take(CatPool, 4))
    /\ Len(result.value) = 15
    /\ Contains(Concat(result.value), CatPool[1])
    /\ get_visibility_performance_stats(visibility_stats).cache_hits >= 1
    /\ \E r1, r2 \in DOMAIN CacheEntries(visibility_query_cache) :
           r1.brand_name # r2.brand_name

-----------------------------------------------------------------------------
(* Providers that do not respond *)

\* what a provider's call comes to when a provider that never responds is
\* excluded like one that failed
AsExcluded(outcome) ==
    IF outcome.kind = "hang" THEN [kind |-> "raise", lines |-> <<>>] ELSE outcome

\* the coroutine has returned, and every call that is due when a provider
\* that never responds is excluded was made
CompletedWithRemainingCalls ==
    /\ tasks.pc = "done"
    /\ tasks.operation = "_llm_generate_queries" =>
           llm_requests = llm_generate_requests(config,
                              [p \in DOMAIN tasks.outcomes |-> AsExcluded(tasks.outcomes[p])])
    /\ (tasks.operation = "_test_brand_visibility_with_llm"
            /\ (config.anthropic_client \/ config.openai_client)) =>
           Len(llm_requests) = Len(tasks.test_queries)

\* C25: every provider call is bounded by a timeout: when a configured
\* provider never responds, query generation and query testing (and with it
\* the metric computation that awaits it) still eventually complete, the
\* provider being excluded and the remaining calls still made.
C25_CompletesWhenProviderNeverResponds == <>CompletedWithRemainingCalls


-----------------------------------------------------------------------------
\* C26: _generate_fallback_priority_recommendations returns a dict with
\* exactly the buckets critical, high, medium and low, and the first bucket
\* in that order that is not empty is critical when attribution_rate < 0.3
\* or brand_visibility_potential < 0.3, else high when attribution_rate <
\* 0.6, else medium when content_quality_score < 0.7, else low.
PriorityOrder == <<"critical", "high", "medium", "low">>

\* the first bucket of the order, from the i-th on, that holds a recommendation
RECURSIVE HighestNonEmptyFrom(_, _)
HighestNonEmptyFrom(recommendations, i) ==
    IF i > Len(PriorityOrder) THEN "none"
    ELSE IF recommendations[PriorityOrder[i]] # <<>> THEN PriorityOrder[i]
    ELSE HighestNonEmptyFrom(recommendations, i + 1)

\* the bucket the rule table of the claim names for the metrics
ClaimedPriority(metrics) ==
    IF \/ 10 * metrics.attribution_rate < 3 * Scale
       \/ 10 * metrics.brand_visibility_potential < 3 * Scale
    THEN "critical"
    ELSE IF 10 * metrics.attribution_rate < 6 * Scale THEN "high"
    ELSE IF 10 * metrics.content_quality_score < 7 * Scale THEN "medium"
    ELSE "low"

C26_HighestBucketFollowsRuleTable ==
    op = "_generate_fallback_priority_recommendations" =>
        /\ DOMAIN result = {"critical", "high", "medium", "low"}
        /\ HighestNonEmptyFrom(result, 1) = ClaimedPriority(args.metrics)

\* metrics exactly on the three thresholds: no rule fires and low is the
\* highest bucket
C26_Witness ==
    /\ op = "_generate_fallback_priority_recommendations"
    /\ 10 * args.metrics.attribution_rate = 6 * Scale
    /\ 10 * args.metrics.brand_visibility_potential = 3 * Scale
    /\ 10 * args.metrics.content_quality_score = 7 * Scale
    /\ result.critical = <<>> /\ result.high = <<>> /\ result.medium = <<>>
    /\ Len(result.low) = 3

-----------------------------------------------------------------------------
\* C27: when _generate_semantic_queries returns after calling the providers,
\* every line of a completion it received that begins with a list marker
\* ("-", "*", the bullet, "1.", "2.") and has text after it is among the
\* returned queries with the marker stripped (compared ignoring case, as
\* the de-duplication does): no such line is discarded.
ListMarkers == SkippedPrefixes \cup { <<Bullet>> }

HasListMarker(q) == \E p \in ListMarkers : StartsWith(q, p)

\* the line without its leading marker and the whitespace around it
MarkerStripped(q) ==
    LET unnumbered == IF StartsWith(q, <<"1", ".">>) \/ StartsWith(q, <<"2", ".">>)
                      THEN SubSeq(q, 3, Len(q))
                      ELSE q
    IN  Strip(LStripChars(unnumbered, {"-", Bullet, "*", "\t", " "}))

\* the lines of the completions received, stripped
ReceivedLines ==
    UNION { { Strip(args.outcomes[llm_requests[i].provider].lines[k]) :
                k \in 1..Len(args.outcomes[llm_requests[i].provider].lines) } :
            i \in { j \in 1..Len(llm_requests) :
                      args.outcomes[llm_requests[j].provider].kind = "ok" } }

C27_MarkedLinesAreKept ==
    (op = "_generate_semantic_queries" /\ result.kind = "return") =>
        \A q \in ReceivedLines :
            (HasListMarker(q) /\ MarkerStripped(q) # <<>>) =>
                \E j \in 1..Len(result.value) :
                    Lower(result.value[j]) = Lower(MarkerStripped(q))

-----------------------------------------------------------------------------
\* C28 as stated: the chunks are, in input order, the trimmed paragraphs of
\* at least 20 characters, one chunk each, except that a paragraph on which
\* a step fails (the embedding model raises) has no chunk; a text with no
\* such paragraph gives the empty list.
Trimmed(paragraphs) == [i \in 1..Len(paragraphs) |-> Strip(paragraphs[i])]

ChunkTexts(chunks) == [i \in 1..Len(chunks) |-> chunks[i].text]

\* encode is called on the paragraph and raises
EmbeddingFails(para) ==
    config.model.loaded /\ (~ config.model.encodes \/ para \in config.model.raises_on)

-----------------------------------------------------------------------------
\* C29: for a brand name that is not empty, also one that ends with a
\* character that is no letter or digit, a simulated response in which the
\* brand name is a whole token between whitespace or the ends of the text
\* (in any letter case) is recorded as a mention.
IsWholeToken(brand_name, text) ==
    \E k \in 1..Len(SplitWords(Lower(text))) :
        SplitWords(Lower(text))[k] = Lower(brand_name)

C29_WholeTokenIsAMention ==
    (op = "_create_simulated_query_results" /\ args.brand_name # <<>>) =>
        \A i \in 1..Len(args.queries) :
            IsWholeToken(args.brand_name,
                         SimulatedResponse(args.brand_name, args.queries[i]))
                => result.value.all_queries[i].mentioned

-----------------------------------------------------------------------------
\* C30: after any sequence of earlier calls on the instance, the queries a
\* call of _generate_visibility_test_queries returns, from the cache or not,
\* are the queries that a generation without a cache returns for the same
\* brand and the same categories in the order given.
UncachedQueries(brand_name, product_categories) ==
    generate_visibility_test_queries(config, NoAttr, visibility_stats,
                                     brand_name, product_categories).queries

C30_CacheIsTransparent ==
    op = "_generate_visibility_test_queries" =>
        Range(result.value)
            = Range(UncachedQueries(args.brand_name, args.product_categories))
=============================================================================
